---- MODULE Spec2Model ----
(***************************************************************************)
(* Model of the upload normalization pipeline: the alias resolvers         *)
(* (lib/mappings/metricResolver.ts, industryResolver.ts), the static       *)
(* mapping tables, the workbook row transformers and the normalization     *)
(* tracker (lib/excel/parseWorkbook.ts) and the preview route that drives  *)
(* them.                                                                   *)
(*                                                                         *)
(* A JavaScript string is a sequence of one-character strings, so that     *)
(* trim, toLowerCase, includes and the regular expressions are computed    *)
(* character by character.  null and undefined are the value null below,   *)
(* which is no sequence of characters.                                     *)
(***************************************************************************)
EXTENDS Integers, Sequences, FiniteSets, TLC

VARIABLES
    rules,         \* resolver run: the alias rows the resolver is built from
    tag,           \* resolver run: the client the resolver is built for
    rawInput,      \* resolver run: the value last resolved
    resolved,      \* resolver run: what the resolver returned for rawInput
    rpc,           \* resolver run: "build" while rows are added, "called" after a call
    normalizationTracker,  \* parseWorkbook.ts: let normalizationTracker
    dbMetricResolver,      \* parseWorkbook.ts: let dbMetricResolver
    dbIndustryResolver,    \* parseWorkbook.ts: let dbIndustryResolver
    options,       \* parse run: [kind, skipDateFilter, dynamic] of the run
    stats,         \* parse run: the DatasetStats of the sheet
    parsed,        \* parse run: the records pushed so far
    lastRow,       \* parse run: the row processed last
    result,        \* parse run: [monthlyMetrics, activityMetrics, normalizations] once done
    ppc,           \* parse run: "idle", "parsing" or "done"
    pc,            \* preview route: where each request stands
    upload,        \* preview route: the form data each request carries
    local,         \* preview route: the locals of each POST
    response,      \* preview route: what each request was answered
    workbook,      \* file run: the sheets of the uploaded file, in SheetNames order
    request,       \* file run: the entry point called and its options
    outcome,       \* file run: what the entry point returned or threw
    callee,        \* function run: the function applied last
    argument,      \* function run: the input it is applied to
    returned,      \* function run: what it returned
    cache,         \* previewCache.ts: const cache, the entries of the Map
    store,         \* previewStore.ts: the state of usePreviewStore
    commits,       \* commit route: the locals of each POST /api/upload/commit
    tables,        \* the rows stored in the three tables
    aliasCache,      \* metricResolver.ts: let aliasCache
    cacheTimestamp,  \* metricResolver.ts: let cacheTimestamp
    metricAliases,   \* the rows of the table metric_aliases
    clock,           \* Date.now()
    loaders,         \* the locals of each loadMetricAliases() call
    creator          \* the locals of POST /api/metric-aliases

resolverVars == <<rules, tag, rawInput, resolved, rpc>>
moduleVars == <<normalizationTracker, dbMetricResolver, dbIndustryResolver>>
parseVars == <<options, stats, parsed, lastRow, result, ppc>>
previewVars == <<pc, upload, local, response>>
fileVars == <<workbook, request, outcome>>
callVars == <<callee, argument, returned>>
commitVars == <<cache, store, commits, tables>>
aliasVars == <<aliasCache, cacheTimestamp, metricAliases, clock, loaders, creator>>
vars == <<resolverVars, moduleVars, parseVars, previewVars, fileVars, callVars,
          commitVars, aliasVars>>

----------------------------------------------------------------------------
(* Values and strings *)

null == <<"#null">>
Threw == <<"#threw">>

S1(a) == <<a>>
S2(a, b) == <<a, b>>

UpperCaseLetters ==
    <<"A","B","C","D","E","F","G","H","I","J","K","L","M",
      "N","O","P","Q","R","S","T","U","V","W","X","Y","Z">>
LowerCaseLetters ==
    <<"a","b","c","d","e","f","g","h","i","j","k","l","m",
      "n","o","p","q","r","s","t","u","v","w","x","y","z">>

toLowerChar(c) ==
    IF \E i \in DOMAIN UpperCaseLetters : UpperCaseLetters[i] = c
    THEN LowerCaseLetters[CHOOSE i \in DOMAIN UpperCaseLetters : UpperCaseLetters[i] = c]
    ELSE c

toUpperChar(c) ==
    IF \E i \in DOMAIN LowerCaseLetters : LowerCaseLetters[i] = c
    THEN UpperCaseLetters[CHOOSE i \in DOMAIN LowerCaseLetters : LowerCaseLetters[i] = c]
    ELSE c

toLowerCase(s) == [i \in 1..Len(s) |-> toLowerChar(s[i])]
toUpperCase(s) == [i \in 1..Len(s) |-> toUpperChar(s[i])]

isSpace(c) == c = " "

RECURSIVE trimStart(_)
trimStart(s) ==
    IF Len(s) > 0 /\ isSpace(s[1]) THEN trimStart(Tail(s)) ELSE s

RECURSIVE trimEnd(_)
trimEnd(s) ==
    IF Len(s) > 0 /\ isSpace(s[Len(s)]) THEN trimEnd(SubSeq(s, 1, Len(s) - 1)) ELSE s

trim(s) == trimEnd(trimStart(s))

\* value.replace(/\s+/g, ' '): every run of whitespace becomes one space
RECURSIVE collapseSpaces(_)
collapseSpaces(s) ==
    IF Len(s) = 0 THEN <<>>
    ELSE IF isSpace(s[1])
         THEN <<" ">> \o collapseSpaces(trimStart(s))
         ELSE <<s[1]>> \o collapseSpaces(Tail(s))

includes(s, sub) ==
    \E i \in 0..(Len(s) - Len(sub)) : SubSeq(s, i + 1, i + Len(sub)) = sub

\* JavaScript truthiness of a string | null value
truthy(v) == v # null /\ v # <<>>

----------------------------------------------------------------------------
(* lib/mappings/metricResolver.ts and industryResolver.ts: the two         *)
(* resolvers are the same code over canonical_name / canonical_industry;   *)
(* a rule is [canonical, alias, match_type, case_sensitive, priority,      *)
(* client].                                                                *)

\* new RegExp(alias, flags): the aliases of the model are literals (letters
\* and spaces), which compile, or hold an unterminated group, which is a
\* SyntaxError.
RegExpCompiles(alias) ==
    Cardinality({i \in DOMAIN alias : alias[i] = "("})
        = Cardinality({i \in DOMAIN alias : alias[i] = ")"})

\* regex.test(input) for a literal pattern: a search for it anywhere in input
RegExpTest(alias, caseSensitive, input) ==
    IF caseSensitive THEN includes(input, alias)
    ELSE includes(toLowerCase(input), toLowerCase(alias))

\* a comparator that ranks by priority alone
clientMatchUnranked(row, client) == 0

\* the comparator's tier: matching client > any client > global (null)
clientMatch(row, client) ==
    IF row.client = client THEN 2 ELSE IF truthy(row.client) THEN 1 ELSE 0

\* a comparator that ranks by tier only
compareAliasesByTier(a, b, client) ==
    clientMatch(b, client) - clientMatch(a, client)

\* the comparator of the sort: negative when a sorts before b
compareAliases(a, b, client) ==
    IF clientMatch(a, client) # clientMatch(b, client)
    THEN clientMatch(b, client) - clientMatch(a, client)
    ELSE b.priority - a.priority

\* Array.prototype.sort is stable: x goes before the first y it sorts before
RECURSIVE insertSorted(_, _, _)
insertSorted(x, s, client) ==
    IF Len(s) = 0 THEN <<x>>
    ELSE IF compareAliases(x, s[1], client) < 0 THEN <<x>> \o s
         ELSE <<s[1]>> \o insertSorted(x, Tail(s), client)

RECURSIVE sortAliases(_, _)
sortAliases(aliases, client) ==
    IF Len(aliases) = 0 THEN <<>>
    ELSE insertSorted(aliases[Len(aliases)],
                      sortAliases(SubSeq(aliases, 1, Len(aliases) - 1), client),
                      client)

\* a loop body without the try/catch around new RegExp
ruleOutcomeUncaught(row, input) ==
    LET inputLower == IF row.case_sensitive THEN input ELSE toLowerCase(input)
        aliasLower == IF row.case_sensitive THEN row.alias ELSE toLowerCase(row.alias)
    IN  CASE row.match_type = "exact" ->
                IF inputLower = aliasLower THEN "matched" ELSE "unmatched"
          [] row.match_type = "contains" ->
                IF includes(inputLower, aliasLower) THEN "matched" ELSE "unmatched"
          [] row.match_type = "regex" ->
                IF ~RegExpCompiles(row.alias) THEN "threw"
                ELSE IF RegExpTest(row.alias, row.case_sensitive, input)
                     THEN "matched" ELSE "unmatched"

\* one turn of the loop body: "matched", "unmatched", or "threw" when an
\* exception leaves the switch
ruleOutcome(row, input) ==
    LET inputLower == IF row.case_sensitive THEN input ELSE toLowerCase(input)
        aliasLower == IF row.case_sensitive THEN row.alias ELSE toLowerCase(row.alias)
    IN  CASE row.match_type = "exact" ->
                IF inputLower = aliasLower THEN "matched" ELSE "unmatched"
          [] row.match_type = "contains" ->
                IF includes(inputLower, aliasLower) THEN "matched" ELSE "unmatched"
          [] row.match_type = "regex" ->
                IF ~RegExpCompiles(row.alias) THEN "unmatched"   \* caught, warned
                ELSE IF RegExpTest(row.alias, row.case_sensitive, input)
                     THEN "matched" ELSE "unmatched"

\* rules scoped to another client are skipped
skipsRow(row, client) == truthy(row.client) /\ row.client # client

\* the for loop over the sorted rows: the index of the row that returns,
\* 0 when the loop ends without a match, -1 when an exception escapes
RECURSIVE firstMatch(_, _, _, _)
firstMatch(sorted, client, input, i) ==
    IF i > Len(sorted) THEN 0
    ELSE IF skipsRow(sorted[i], client) THEN firstMatch(sorted, client, input, i + 1)
    ELSE LET o == ruleOutcome(sorted[i], input)
         IN  IF o = "threw" THEN -1
             ELSE IF o = "matched" THEN i
             ELSE firstMatch(sorted, client, input, i + 1)

\* createMetricResolver(aliases, client)(rawName)
resolveWith(aliases, client, rawName) ==
    IF rawName = null THEN null
    ELSE LET input == trim(rawName)
             sorted == sortAliases(aliases, client)
             hit == firstMatch(sorted, client, input, 1)
         IN  IF input = <<>> THEN null
             ELSE IF hit = -1 THEN Threw
             ELSE IF hit = 0 THEN null
             ELSE sorted[hit].canonical

----------------------------------------------------------------------------
(* Resolver run: a rule list is built row by row from RuleUniverse, then   *)
(* the resolver built from it for client `tag` is called on one input.     *)

MaxRules == 2

\* row i of the alias table maps to its own canonical value, so that the
\* value returned names the row that matched
CanonicalDigits == <<"1", "2", "3", "4", "5">>
CanonicalOf(i) == S2("K", CanonicalDigits[i])
ClientA == S1("a")
ClientB == S1("b")

\* (alias, match_type, case_sensitive) of the rows drawn
Patterns ==
    { [alias |-> S2("a", "b"), match_type |-> "exact",    case_sensitive |-> FALSE],
      [alias |-> S1("a"),      match_type |-> "contains", case_sensitive |-> TRUE],
      [alias |-> S1("b"),      match_type |-> "regex",    case_sensitive |-> FALSE],
      [alias |-> S1("("),      match_type |-> "regex",    case_sensitive |-> FALSE] }

Priorities == {1, 2}
Scopes == {null, <<>>, ClientA}
Tags == {null, ClientA, ClientB}

RuleUniverse ==
    { [alias |-> p.alias, match_type |-> p.match_type,
       case_sensitive |-> p.case_sensitive, priority |-> pr, client |-> sc] :
        p \in Patterns, pr \in Priorities, sc \in Scopes }

aliasRow(r, canonical) ==
    [canonical |-> canonical, alias |-> r.alias, match_type |-> r.match_type,
     case_sensitive |-> r.case_sensitive, priority |-> r.priority, client |-> r.client]

RawInputs == { null, S2("a", "b"), <<" ", "A", "b", " ">>, S1("b"), S1(" ") }

\* the parser module as loaded, with no parse run under way
ParserIdle ==
    /\ normalizationTracker = [active |-> FALSE]
    /\ dbMetricResolver = [installed |-> FALSE]
    /\ dbIndustryResolver = [installed |-> FALSE]
    /\ options = [kind |-> "none", skipDateFilter |-> TRUE, dynamic |-> FALSE]
    /\ stats = [totalRows |-> 0, acceptedRows |-> 0,
                filteredMissingData |-> 0, filteredTooRecent |-> 0]
    /\ parsed = <<>>
    /\ lastRow = [month_year |-> null, organization |-> null,
                  program |-> null, metric |-> null]
    /\ result = [monthlyMetrics |-> <<>>, activityMetrics |-> <<>>,
                 normalizations |-> [organizations |-> <<>>, metrics |-> <<>>,
                                     industries |-> <<>>, unmatchedOrgs |-> <<>>,
                                     unmatchedMetrics |-> <<>>]]
    /\ ppc = "idle"

\* the preview requests of the model
Requests == {1, 2}

PreviewIdle ==
    /\ pc = [r \in Requests |-> "idle"]
    /\ upload = [r \in Requests |-> [kind |-> "none", rows |-> <<>>, client |-> null]]
    /\ local = [r \in Requests |->
                   [aliases |-> FALSE, industryAliases |-> FALSE,
                    parsed |-> [done |-> FALSE]]]
    /\ response = [r \in Requests |-> [sent |-> FALSE]]

\* no file handed to an entry point, no function applied
FileIdle ==
    /\ workbook = <<>>
    /\ request = [entry |-> "none"]
    /\ outcome = [done |-> FALSE]

CallIdle ==
    /\ callee = "none"
    /\ argument = [type |-> "none"]
    /\ returned = [threw |-> FALSE]

\* the commit requests of the model
CommitRequests == {1, 2}

DatasetKeys == {"behaviors", "monthlyMetrics", "activityMetrics"}
TableNames == <<"behavioral_coaching", "monthly_metrics", "activity_metrics">>

NoCommit == [pc |-> "idle"]

\* no preview cached, nothing shown in the upload page, no commit sent
CommitIdle ==
    /\ cache = {}
    /\ store = [preview |-> [present |-> FALSE],
                selection |-> [d \in DatasetKeys |-> {}],
                status |-> "idle"]
    /\ commits = [r \in CommitRequests |-> NoCommit]
    /\ tables = [t \in {TableNames[i] : i \in DOMAIN TableNames} |-> {}]

\* milliseconds of one step of the clock, and the steps the clock takes
TickMs == 150000
MaxTicks == 3

CACHE_TTL_MS == 300000

NoAliases == [loaded |-> FALSE]

\* the loadMetricAliases() calls of the model
Loaders == {1, 2}

\* the alias module as loaded: Date.now() is far beyond CACHE_TTL_MS
AliasIdle ==
    /\ aliasCache = NoAliases
    /\ cacheTimestamp = 0
    /\ metricAliases = {"old"}
    /\ clock = CACHE_TTL_MS \div TickMs + 1
    /\ loaders = [l \in Loaders |-> [pc |-> "idle"]]
    /\ creator = [pc |-> "idle"]

InitResolver ==
    /\ rules = <<>>
    /\ tag \in Tags
    /\ rawInput = null
    /\ resolved = null
    /\ rpc = "build"
    /\ ParserIdle
    /\ PreviewIdle
    /\ FileIdle
    /\ CallIdle
    /\ CommitIdle
    /\ AliasIdle

\* rows the table's NOT NULL columns admit: an empty alias, an empty
\* canonical value
EdgeRules ==
    { [alias |-> <<>>, match_type |-> "contains", case_sensitive |-> FALSE,
       priority |-> 1, client |-> null, emptyCanonical |-> FALSE],
      [alias |-> S1("b"), match_type |-> "contains", case_sensitive |-> FALSE,
       priority |-> 2, client |-> null, emptyCanonical |-> TRUE],
      [alias |-> <<>>, match_type |-> "regex", case_sensitive |-> FALSE,
       priority |-> 1, client |-> ClientA, emptyCanonical |-> TRUE] }

\* one more row of the alias table handed to createMetricResolver
AddRule(r, canonical) ==
    /\ rpc = "build"
    /\ Len(rules) < MaxRules
    /\ rules' = Append(rules, aliasRow(r, canonical))
    /\ UNCHANGED <<tag, rawInput, resolved>>
    /\ rpc' = "build"
    /\ UNCHANGED <<moduleVars, parseVars, previewVars>>
    /\ UNCHANGED <<fileVars, callVars, commitVars, aliasVars>>

\* createMetricResolver(rules, tag)(raw)
CallResolver(raw) ==
    /\ rpc = "build"
    /\ rawInput' = raw
    /\ resolved' = resolveWith(rules, tag, raw)
    /\ rpc' = "called"
    /\ UNCHANGED <<rules, tag>>
    /\ UNCHANGED <<moduleVars, parseVars, previewVars>>
    /\ UNCHANGED <<fileVars, callVars, commitVars, aliasVars>>

NextResolver ==
    \/ \E r \in RuleUniverse : AddRule(r, CanonicalOf(Len(rules) + 1))
    \/ \E r \in EdgeRules :
          AddRule(r, IF r.emptyCanonical THEN <<>> ELSE CanonicalOf(Len(rules) + 1))
    \/ \E raw \in RawInputs : CallResolver(raw)

SpecResolver == InitResolver /\ [][NextResolver]_vars

----------------------------------------------------------------------------
(* Claims about the resolver *)

\* the row matches the trimmed input and is not skipped for its client
eligibleMatch(row, client, raw) ==
    /\ ~skipsRow(row, client)
    /\ ruleOutcome(row, trim(raw)) = "matched"

Called == rpc = "called" /\ rawInput # null /\ trim(rawInput) # <<>>

\* C2: when a rule A scoped to the active client and a global rule B both
\* match the input, the resolver returns the canonical value of a rule
\* scoped to the active client, and A's own when A is the only such rule
\* that matches, whatever the priorities and the positions of A and B.
C2_ClientScopedBeatsGlobal ==
    (Called /\ tag # null) =>
        \A a, b \in DOMAIN rules :
            ( /\ rules[a].client = tag
              /\ rules[b].client = null
              /\ eligibleMatch(rules[a], tag, rawInput)
              /\ eligibleMatch(rules[b], tag, rawInput) )
            => /\ \E c \in DOMAIN rules :
                    /\ rules[c].client = tag
                    /\ eligibleMatch(rules[c], tag, rawInput)
                    /\ resolved = rules[c].canonical
               /\ (\A c \in DOMAIN rules :
                     (rules[c].client = tag /\ eligibleMatch(rules[c], tag, rawInput))
                        => c = a)
                  => resolved = rules[a].canonical

\* a call where the global rule comes first and has the higher priority
C2_Witness ==
    /\ Called /\ tag = ClientA /\ Len(rules) = 2
    /\ rules[1].client = null /\ rules[2].client = ClientA
    /\ rules[1].priority > rules[2].priority
    /\ rules[1].canonical # rules[2].canonical
    /\ eligibleMatch(rules[1], tag, rawInput)
    /\ eligibleMatch(rules[2], tag, rawInput)
    /\ resolved = rules[2].canonical

\* the rows that are not scoped to another client, in their order
RECURSIVE withoutForeign(_, _)
withoutForeign(aliases, client) ==
    IF Len(aliases) = 0 THEN <<>>
    ELSE IF aliases[1].client # null /\ aliases[1].client # client
         THEN withoutForeign(Tail(aliases), client)
         ELSE <<aliases[1]>> \o withoutForeign(Tail(aliases), client)

\* C3 as stated: rows whose client is non-null and differs from the tag
\* never determine the result.
C3_ForeignScopeNeverDecides ==
    rpc = "called" =>
        resolved = resolveWith(withoutForeign(rules, tag), tag, rawInput)

\* C4: an alias that does not compile never makes the call throw, and a
\* valid eligible row that matches still gives a result.
C4_InvalidRegexIsolated ==
    rpc = "called" =>
        /\ resolved # Threw
        /\ (Called /\ \E i \in DOMAIN rules : eligibleMatch(rules[i], tag, rawInput))
              => \E i \in DOMAIN rules :
                    /\ eligibleMatch(rules[i], tag, rawInput)
                    /\ resolved = rules[i].canonical

\* the invalid row is evaluated before the valid row that matches
C4_Witness ==
    /\ Called /\ Len(rules) = 2
    /\ rules[1].match_type = "regex" /\ ~RegExpCompiles(rules[1].alias)
    /\ rules[1].priority > rules[2].priority
    /\ rules[1].client = rules[2].client /\ ~skipsRow(rules[1], tag)
    /\ eligibleMatch(rules[2], tag, rawInput)
    /\ resolved = rules[2].canonical

\* C21: for every rule set, rules with an empty canonical value or an empty
\* alias included, the resolver returns null or a non-empty string, and
\* null for a null or whitespace-only input.
C21_NullOrNonEmpty ==
    rpc = "called" =>
        /\ resolved = null \/ (resolved # Threw /\ Len(resolved) > 0)
        /\ (rawInput = null \/ trim(rawInput) = <<>>) => resolved = null

----------------------------------------------------------------------------
(* lib/excel/parseWorkbook.ts: strings, periods and the static tables *)

normalizeWhitespace(value) == trim(collapseSpaces(value))

\* coerceString for a string | null cell
coerceString(value) ==
    IF value = null THEN null
    ELSE LET trimmed == normalizeWhitespace(value)
         IN  IF Len(trimmed) > 0 THEN trimmed ELSE null

DigitChars == <<"0", "1", "2", "3", "4", "5", "6", "7", "8", "9">>
isDigit(c) == \E i \in DOMAIN DigitChars : DigitChars[i] = c
digitValue(c) == (CHOOSE i \in DOMAIN DigitChars : DigitChars[i] = c) - 1

\* MONTHS: the short code, and the alternative of the month regular
\* expression as <<stem, optional group, optional group>>
MONTHS ==
    << [short |-> <<"J", "a", "n">>, stem |-> <<"j", "a", "n">>, opt1 |-> <<"u", "a", "r", "y">>,   opt2 |-> <<>>],
       [short |-> <<"F", "e", "b">>, stem |-> <<"f", "e", "b">>, opt1 |-> <<"r", "u", "a", "r", "y">>,  opt2 |-> <<>>],
       [short |-> <<"M", "a", "r">>, stem |-> <<"m", "a", "r">>, opt1 |-> <<"c", "h">>,     opt2 |-> <<>>],
       [short |-> <<"A", "p", "r">>, stem |-> <<"a", "p", "r">>, opt1 |-> <<"i", "l">>,     opt2 |-> <<>>],
       [short |-> <<"M", "a", "y">>, stem |-> <<"m", "a", "y">>, opt1 |-> <<>>,     opt2 |-> <<>>],
       [short |-> <<"J", "u", "n">>, stem |-> <<"j", "u", "n">>, opt1 |-> <<"e">>,      opt2 |-> <<>>],
       [short |-> <<"J", "u", "l">>, stem |-> <<"j", "u", "l">>, opt1 |-> <<"y">>,      opt2 |-> <<>>],
       [short |-> <<"A", "u", "g">>, stem |-> <<"a", "u", "g">>, opt1 |-> <<"u", "s", "t">>,    opt2 |-> <<>>],
       [short |-> <<"S", "e", "p">>, stem |-> <<"s", "e", "p">>, opt1 |-> <<"t">>,      opt2 |-> <<"e", "m", "b", "e", "r">>],
       [short |-> <<"O", "c", "t">>, stem |-> <<"o", "c", "t">>, opt1 |-> <<"o", "b", "e", "r">>,   opt2 |-> <<>>],
       [short |-> <<"N", "o", "v">>, stem |-> <<"n", "o", "v">>, opt1 |-> <<"e", "m", "b", "e", "r">>,  opt2 |-> <<>>],
       [short |-> <<"D", "e", "c">>, stem |-> <<"d", "e", "c">>, opt1 |-> <<"e", "m", "b", "e", "r">>,  opt2 |-> <<>>] >>

\* monthLookup: the aliases of each month and its lower-cased short code
monthAliases(i) ==
    IF i = 9 THEN { <<"s", "e", "p">>, <<"s", "e", "p", "t">>, <<"s", "e", "p", "t", "e", "m", "b", "e", "r">> }
    ELSE { MONTHS[i].stem, MONTHS[i].stem \o MONTHS[i].opt1 }

startsWithAt(s, i, sub) ==
    i + Len(sub) - 1 <= Len(s) /\ SubSeq(s, i, i + Len(sub) - 1) = sub

\* the text one alternative of the month expression matches at position i
\* (each optional group is taken when it is there), <<>> when it does not
monthAlternativeAt(s, i, m) ==
    IF ~startsWithAt(s, i, m.stem) THEN <<>>
    ELSE LET a == IF Len(m.opt1) > 0 /\ startsWithAt(s, i + Len(m.stem), m.opt1)
                  THEN m.stem \o m.opt1 ELSE m.stem
         IN  IF Len(m.opt2) > 0 /\ startsWithAt(s, i + Len(a), m.opt2)
             THEN a \o m.opt2 ELSE a

\* rawString.toLowerCase().match(/(jan(uary)?|...|dec(ember)?)/)[0]: the
\* leftmost match, <<>> when there is none
monthMatch(rawString) ==
    LET s == toLowerCase(rawString)
        hits == { i \in 1..Len(s) :
                    \E k \in DOMAIN MONTHS : monthAlternativeAt(s, i, MONTHS[k]) # <<>> }
    IN  IF hits = {} THEN <<>>
        ELSE LET i == CHOOSE x \in hits : \A y \in hits : x <= y
                 k == CHOOSE x \in DOMAIN MONTHS :
                        /\ monthAlternativeAt(s, i, MONTHS[x]) # <<>>
                        /\ \A y \in DOMAIN MONTHS :
                              monthAlternativeAt(s, i, MONTHS[y]) # <<>> => x <= y
             IN  monthAlternativeAt(s, i, MONTHS[k])

\* rawString.match(/(20\d{2}|19\d{2}|\d{2})/)[0] as a number, -1 when
\* there is no match
yearMatch(s) ==
    LET hits == { i \in 1..(Len(s) - 1) : isDigit(s[i]) /\ isDigit(s[i + 1]) }
    IN  IF hits = {} THEN -1
        ELSE LET i == CHOOSE x \in hits : \A y \in hits : x <= y
                 two == 10 * digitValue(s[i]) + digitValue(s[i + 1])
                 four == /\ two \in {19, 20}
                         /\ i + 3 <= Len(s)
                         /\ isDigit(s[i + 2]) /\ isDigit(s[i + 3])
             IN  IF four
                 THEN 100 * two + 10 * digitValue(s[i + 2]) + digitValue(s[i + 3])
                 ELSE two

NoPeriod == [month |-> null, year |-> 0, hasYear |-> FALSE]

\* parseMonthYear for a string | null cell
parseMonthYear(input) ==
    LET rawString == coerceString(input)
    IN  IF rawString = null THEN NoPeriod
        ELSE LET mm == monthMatch(rawString)
                 parsedYear == yearMatch(rawString)
             IN  IF mm = <<>> \/ parsedYear = -1 THEN NoPeriod
                 ELSE IF ~\E k \in DOMAIN MONTHS : mm \in monthAliases(k) THEN NoPeriod
                 ELSE LET k == CHOOSE x \in DOMAIN MONTHS : mm \in monthAliases(x)
                      IN  [month |-> MONTHS[k].short,
                           year |-> IF parsedYear < 100 THEN parsedYear + 2000
                                    ELSE parsedYear,
                           hasYear |-> TRUE]

\* days from 1970-01-01 to the civil date y-m-d (m in 1..12), as Date.UTC
\* counts them
daysFromCivil(y, m, d) ==
    LET yy == IF m <= 2 THEN y - 1 ELSE y
        era == yy \div 400
        yoe == yy - era * 400
        mp == IF m > 2 THEN m - 3 ELSE m + 9
        doy == (153 * mp + 2) \div 5 + d - 1
        doe == yoe * 365 + yoe \div 4 - yoe \div 100 + doy
    IN  era * 146097 + doe - 719468

\* a date filter that asks for ten days
isMonthOldEnoughTenDays(month, year, today) ==
    IF ~\E k \in DOMAIN MONTHS : toLowerCase(month) \in monthAliases(k) THEN FALSE
    ELSE LET k == CHOOSE x \in DOMAIN MONTHS : toLowerCase(month) \in monthAliases(x)
             lastDayOfMonth ==
                 IF k = 12 THEN daysFromCivil(year + 1, 1, 1) - 1
                 ELSE daysFromCivil(year, k + 1, 1) - 1
             diff == daysFromCivil(today.year, today.month, today.day) - lastDayOfMonth
         IN  diff >= 10

\* isMonthOldEnough: Date.UTC(year, index + 1, 0) is the last day of the
\* month; today is [year, month, day] in UTC
isMonthOldEnough(month, year, today) ==
    IF ~\E k \in DOMAIN MONTHS : toLowerCase(month) \in monthAliases(k) THEN FALSE
    ELSE LET k == CHOOSE x \in DOMAIN MONTHS : toLowerCase(month) \in monthAliases(x)
             lastDayOfMonth ==
                 IF k = 12 THEN daysFromCivil(year + 1, 1, 1) - 1
                 ELSE daysFromCivil(year, k + 1, 1) - 1
             diff == daysFromCivil(today.year, today.month, today.day) - lastDayOfMonth
         IN  diff >= 9

\* ORG_ALIASES in declaration order: the entries whose key can occur in the
\* organizations drawn (the model draws no organization that holds a key
\* of an entry left out)
sUHC == <<"U", "H", "C">>
ORG_ALIASES ==
    << <<<<"u", "n", "i", "t", "e", "d", " ", "h", "e", "a", "l", "t", "h", " ", "c", "a", "r", "e">>, sUHC>>,
       <<<<"u", "n", "i", "t", "e", "d", " ", "h", "e", "a", "l", "t", "h", "c", "a", "r", "e">>, sUHC>>,
       <<<<"u", "n", "i", "t", "e", "d", " ", "h", "e", "a", "l", "t", "h", " ", "g", "r", "o", "u", "p">>, sUHC>>,
       <<<<"u", "n", "i", "t", "e", "d", "h", "e", "a", "l", "t", "h", "c", "a", "r", "e">>, sUHC>>,
       <<<<"u", "n", "i", "t", "e", "d", "h", "e", "a", "l", "t", "h">>, sUHC>>,
       <<<<"u", "h", "c">>, sUHC>>,
       <<<<"u", "h", "g">>, sUHC>>,
       <<<<"o", "p", "t", "u", "m">>, <<"O", "P", "T", "U", "M", " ", "U", "B", "H">>>>,
       <<<<"o", "p", "t", "u", "m", " ", "u", "b", "h">>, <<"O", "P", "T", "U", "M", " ", "U", "B", "H">>>>,
       <<<<"o", "p", "t", "u", "m", " ", "b", "e", "h", "a", "v", "i", "o", "r", "a", "l">>, <<"O", "P", "T", "U", "M", " ", "U", "B", "H">>>> >>

\* the lower-case property names every object literal inherits from
\* Object.prototype, and the value read under them: truthy, and no string
ObjectPrototypeKeys == { <<"c", "o", "n", "s", "t", "r", "u", "c", "t", "o", "r">>, <<"_", "_", "p", "r", "o", "t", "o", "_", "_">> }
Inherited == <<"#inherited">>

\* the last entry whose key the string holds, not the first
firstContainedLast(table, lowerStr) ==
    table[CHOOSE i \in DOMAIN table :
             /\ includes(lowerStr, table[i][1])
             /\ \A j \in DOMAIN table : includes(lowerStr, table[j][1]) => j <= i][2]

\* for (const [key, value] of Object.entries(table)): the value of the
\* first entry whose key the string holds
firstContained(table, lowerStr) ==
    table[CHOOSE i \in DOMAIN table :
             /\ includes(lowerStr, table[i][1])
             /\ \A j \in DOMAIN table : includes(lowerStr, table[j][1]) => i <= j][2]

\* table[key] when it is truthy, then the first entry whose key the string
\* holds, else null
tableLookup(table, lowerStr) ==
    IF \E i \in DOMAIN table : table[i][1] = lowerStr
    THEN table[CHOOSE i \in DOMAIN table : table[i][1] = lowerStr][2]
    ELSE IF lowerStr \in ObjectPrototypeKeys THEN Inherited
    ELSE IF \E i \in DOMAIN table : includes(lowerStr, table[i][1])
    THEN firstContained(table, lowerStr)
    ELSE null

toAmplifaiOrg(value) ==
    IF value = null THEN null
    ELSE LET str == trim(value)
             hit == tableLookup(ORG_ALIASES, toLowerCase(str))
         IN  IF Len(str) = 0 THEN null
             ELSE IF hit # null THEN hit
             ELSE collapseSpaces(toUpperCase(str))

\* INDUSTRY_MAPPINGS (lib/mappings/industryResolver.ts), the entries whose
\* key can occur in the organizations drawn
sHEALTHCARE == <<"H", "E", "A", "L", "T", "H", "C", "A", "R", "E">>
INDUSTRY_MAPPINGS ==
    << <<<<"u", "h", "c">>, sHEALTHCARE>>,
       <<<<"u", "n", "i", "t", "e", "d", " ", "h", "e", "a", "l", "t", "h">>, sHEALTHCARE>>,
       <<<<"u", "n", "i", "t", "e", "d", "h", "e", "a", "l", "t", "h", "c", "a", "r", "e">>, sHEALTHCARE>>,
       <<<<"o", "p", "t", "u", "m">>, sHEALTHCARE>> >>

deriveIndustryFromOrg(orgName) ==
    IF orgName = null THEN null
    ELSE LET str == trim(orgName)
         IN  IF Len(str) = 0 THEN null
             ELSE tableLookup(INDUSTRY_MAPPINGS, toLowerCase(str))

\* METRIC_MAPPINGS (lib/excel/amplifaiMappings.ts) in declaration order:
\* /nps/i, /release\s*rate/i, /^release$/i and /^aht$/i, the patterns a
\* metric name drawn by the model can match; each is <<canonical, kind,
\* text>>, and the text of a "gap" pattern is the two words \s* stands
\* between
sNPS == <<"N", "P", "S">>
sRELEASE_RATE == <<"R", "E", "L", "E", "A", "S", "E", " ", "R", "A", "T", "E">>
sAHT == <<"A", "H", "T">>
METRIC_MAPPINGS ==
    << <<sNPS, "search", <<"n", "p", "s">>>>,
       <<sRELEASE_RATE, "gap", <<<<"r", "e", "l", "e", "a", "s", "e">>, <<"r", "a", "t", "e">>>>>>,
       <<sRELEASE_RATE, "whole", <<"r", "e", "l", "e", "a", "s", "e">>>>,
       <<sAHT, "whole", <<"a", "h", "t">>>> >>

\* first \s* second matches in s from position i on
gapMatchAt(s, i, first, second) ==
    /\ startsWithAt(s, i, first)
    /\ \E j \in (i + Len(first))..(Len(s) + 1) :
          /\ \A k \in (i + Len(first))..(j - 1) : isSpace(s[k])
          /\ startsWithAt(s, j, second)

patternTest(kind, text, value) ==
    IF kind = "search" THEN includes(toLowerCase(value), text)
    ELSE IF kind = "gap"
    THEN \E i \in 1..Len(value) : gapMatchAt(toLowerCase(value), i, text[1], text[2])
    ELSE toLowerCase(value) = text

matchAgainstMappings(value, mappings) ==
    IF \E i \in DOMAIN mappings : patternTest(mappings[i][2], mappings[i][3], value)
    THEN mappings[CHOOSE i \in DOMAIN mappings :
            /\ patternTest(mappings[i][2], mappings[i][3], value)
            /\ \A j \in DOMAIN mappings :
                  patternTest(mappings[j][2], mappings[j][3], value) => i <= j][1]
    ELSE null

deriveAmplifaiMetric(value) ==
    LET normalized == coerceString(value)
    IN  IF normalized = null THEN null
        ELSE LET mapped == matchAgainstMappings(normalized, METRIC_MAPPINGS)
             IN  IF mapped # null THEN mapped ELSE toUpperCase(normalized)

----------------------------------------------------------------------------
(* parseWorkbook.ts: the injected resolvers and the normalization tracker *)

NoResolver == [installed |-> FALSE]
resolverOf(aliases, client) == [installed |-> TRUE, aliases |-> aliases, client |-> client]

callResolver(resolver, value) == resolveWith(resolver.aliases, resolver.client, value)

toAmplifaiMetric(value, resolver) ==
    IF resolver.installed /\ truthy(callResolver(resolver, value))
    THEN callResolver(resolver, value)
    ELSE deriveAmplifaiMetric(value)

toAmplifaiIndustry(orgValue, resolver) ==
    IF resolver.installed /\ truthy(callResolver(resolver, orgValue))
    THEN callResolver(resolver, orgValue)
    ELSE deriveIndustryFromOrg(orgValue)

\* a Map in insertion order: a sequence of [key, value, count]
NoTracker == [active |-> FALSE]
EmptyTracker ==
    [active |-> TRUE, organizations |-> <<>>, metrics |-> <<>>, industries |-> <<>>,
     unmatchedOrgs |-> <<>>, unmatchedMetrics |-> <<>>]

\* existing.count += 1, or map.set(key, {value, count: 1})
mapCount(map, key, value) ==
    IF \E i \in DOMAIN map : map[i].key = key
    THEN [i \in DOMAIN map |->
            IF map[i].key = key THEN [map[i] EXCEPT !.count = @ + 1] ELSE map[i]]
    ELSE Append(map, [key |-> key, value |-> value, count |-> 1])

trackNormalization(tracker, type, original, normalized) ==
    IF ~tracker.active \/ ~truthy(original) \/ ~truthy(normalized) THEN tracker
    ELSE [tracker EXCEPT ![type] = mapCount(@, original, normalized)]

trackUnmatchedOrg(tracker, orgName, amplifaiOrg) ==
    IF ~tracker.active \/ ~truthy(orgName) THEN tracker
    ELSE [tracker EXCEPT !.unmatchedOrgs = mapCount(@, orgName, amplifaiOrg)]

isUnmatched(metricName, amplifaiMetric) ==
    amplifaiMetric = trim(collapseSpaces(toUpperCase(metricName)))

trackUnmatchedMetric(tracker, metricName, amplifaiMetric) ==
    IF ~tracker.active \/ ~truthy(metricName) \/ ~truthy(amplifaiMetric) THEN tracker
    ELSE IF ~isUnmatched(metricName, amplifaiMetric) THEN tracker
    ELSE [tracker EXCEPT !.unmatchedMetrics = mapCount(@, metricName, null)]

\* .sort((a, b) => b.count - a.count), stable
RECURSIVE insertByCount(_, _)
insertByCount(x, s) ==
    IF Len(s) = 0 THEN <<x>>
    ELSE IF s[1].count - x.count < 0 THEN <<x>> \o s
         ELSE <<s[1]>> \o insertByCount(x, Tail(s))

RECURSIVE sortByCount(_)
sortByCount(map) ==
    IF Len(map) = 0 THEN <<>>
    ELSE insertByCount(map[Len(map)], sortByCount(SubSeq(map, 1, Len(map) - 1)))

changedBeyondCase(e) == toLowerCase(e.key) # toLowerCase(e.value)

\* toEntries: the entries whose normalized value differs from the original
\* beyond letter case, by count
toEntries(map) == sortByCount(SelectSeq(map, changedBeyondCase))

EmptySummary ==
    [organizations |-> <<>>, metrics |-> <<>>, industries |-> <<>>,
     unmatchedOrgs |-> <<>>, unmatchedMetrics |-> <<>>]

\* the summary getNormalizationSummary returns (it also sets the tracker
\* to null, which is the caller's next state)
summaryOf(tracker) ==
    IF ~tracker.active THEN EmptySummary
    ELSE [organizations |-> toEntries(tracker.organizations),
          metrics |-> toEntries(tracker.metrics),
          industries |-> toEntries(tracker.industries),
          unmatchedOrgs |-> sortByCount(tracker.unmatchedOrgs),
          unmatchedMetrics |-> sortByCount(tracker.unmatchedMetrics)]

----------------------------------------------------------------------------
(* parseWorkbook.ts: the row transformers.  A row is [month_year,          *)
(* organization, program, metric]: one column per canonical name, each     *)
(* cell a string or null (sheet_to_json with defval: null).  The optional  *)
(* numeric columns are not drawn.                                          *)

\* accessor.get(name): the cell, unless it is undefined, null or ''
accessorGet(row, name) ==
    IF row[name] = null \/ row[name] = <<>> THEN null ELSE row[name]

initStats ==
    [totalRows |-> 0, acceptedRows |-> 0, filteredMissingData |-> 0, filteredTooRecent |-> 0]

\* the tracker calls both transformers make for an accepted row
trackRow(tracker, orgStr, metricStr, amplifaiOrg, amplifaiMetric, amplifaiIndustry) ==
    LET t1 == IF truthy(orgStr) /\ truthy(amplifaiOrg)
              THEN trackNormalization(tracker, "organizations", orgStr, amplifaiOrg)
              ELSE tracker
        t2 == IF truthy(metricStr) /\ truthy(amplifaiMetric)
              THEN trackNormalization(t1, "metrics", metricStr, amplifaiMetric)
              ELSE t1
        t3 == IF truthy(orgStr) /\ truthy(amplifaiIndustry)
              THEN trackNormalization(t2, "industries", orgStr, amplifaiIndustry)
              ELSE t2
        t4 == IF truthy(orgStr) /\ ~truthy(amplifaiIndustry)
              THEN trackUnmatchedOrg(t3, orgStr, amplifaiOrg)
              ELSE t3
    IN  IF truthy(metricStr) THEN trackUnmatchedMetric(t4, metricStr, amplifaiMetric)
        ELSE t4

\* period checks that never apply the date filter
periodVerdictUnfiltered(period, skipDateFilter, today) ==
    IF ~truthy(period.month) \/ ~period.hasYear \/ period.year = 0 THEN "missing"
    ELSE "pass"

\* what the period checks at the head of both loop bodies decide:
\* "missing", "recent" or "pass"
periodVerdict(period, skipDateFilter, today) ==
    IF ~truthy(period.month) \/ ~period.hasYear \/ period.year = 0 THEN "missing"
    ELSE IF ~skipDateFilter /\ ~isMonthOldEnough(period.month, period.year, today)
         THEN "recent"
    ELSE "pass"

\* a transformer that forgets to count the rows the date filter drops
incrementButTooRecent(st, counter) ==
    IF counter = "filteredTooRecent" THEN st
    ELSE [st EXCEPT !.stats[counter] = @ + 1]

\* stats.<counter> += 1
increment(st, counter) == [st EXCEPT !.stats[counter] = @ + 1]

\* the constants one turn of the loop body computes from the cells of a row
rowValues(row, env) ==
    [period |-> parseMonthYear(accessorGet(row, "month_year")),
     organizationValue |-> accessorGet(row, "organization"),
     programValue |-> accessorGet(row, "program"),
     metricValue |-> accessorGet(row, "metric"),
     orgStr |-> coerceString(accessorGet(row, "organization")),
     programStr |-> coerceString(accessorGet(row, "program")),
     metricStr |-> coerceString(accessorGet(row, "metric")),
     amplifaiOrg |-> toAmplifaiOrg(accessorGet(row, "organization")),
     amplifaiMetric |-> toAmplifaiMetric(accessorGet(row, "metric"), env.metricResolver),
     amplifaiIndustry |->
         toAmplifaiIndustry(accessorGet(row, "organization"), env.industryResolver)]

\* the body of rows.forEach in parseBehaviorRows over the constants v; st
\* is [stats, parsed, tracker]
behaviorRowOutcome(st, index, env, v) ==
    LET counted == increment(st, "totalRows")
        verdict == periodVerdict(v.period, env.skipDateFilter, env.today)
        record == [id |-> index + 2, month |-> v.period.month, year |-> v.period.year,
                   organization |-> v.orgStr, program |-> v.programStr,
                   metric |-> v.metricStr, amplifaiOrg |-> v.amplifaiOrg,
                   amplifaiMetric |-> v.amplifaiMetric,
                   amplifaiIndustry |-> v.amplifaiIndustry]
    IN  IF verdict = "missing"
        THEN increment(counted, "filteredMissingData")
        ELSE IF verdict = "recent"
        THEN increment(counted, "filteredTooRecent")
        ELSE IF ~truthy(v.organizationValue) \/ ~truthy(v.programValue)
        THEN increment(counted, "filteredMissingData")
        ELSE [stats |-> increment(counted, "acceptedRows").stats,
              parsed |-> Append(st.parsed, record),
              tracker |-> trackRow(st.tracker, v.orgStr, v.metricStr,
                                   v.amplifaiOrg, v.amplifaiMetric, v.amplifaiIndustry)]

\* one turn of rows.forEach in parseBehaviorRows; env is [skipDateFilter,
\* today, metricResolver, industryResolver]
parseBehaviorRow(st, row, index, env) ==
    CHOOSE next \in { behaviorRowOutcome(st, index, env, v) : v \in {rowValues(row, env)} } :
        TRUE

\* the body of rows.forEach in parseMetricRows over the constants v
metricRowOutcome(st, index, env, v) ==
    LET counted == increment(st, "totalRows")
        verdict == periodVerdict(v.period, env.skipDateFilter, env.today)
        record == [id |-> index + 2, month |-> v.period.month, year |-> v.period.year,
                   organization |-> v.orgStr, program |-> v.programStr,
                   metricName |-> v.metricStr, isActivityMetric |-> FALSE,
                   amplifaiOrg |-> v.amplifaiOrg, amplifaiMetric |-> v.amplifaiMetric,
                   amplifaiIndustry |-> v.amplifaiIndustry]
    IN  IF verdict = "missing"
        THEN increment(counted, "filteredMissingData")
        ELSE IF verdict = "recent"
        THEN increment(counted, "filteredTooRecent")
        ELSE IF \/ ~truthy(v.organizationValue) \/ ~truthy(v.programValue)
                \/ ~truthy(v.metricValue)
        THEN increment(counted, "filteredMissingData")
        ELSE [stats |-> increment(counted, "acceptedRows").stats,
              parsed |-> Append(st.parsed, record),
              tracker |-> trackRow(st.tracker, v.orgStr, v.metricStr,
                                   v.amplifaiOrg, v.amplifaiMetric, v.amplifaiIndustry)]

\* one turn of rows.forEach in parseMetricRows
parseMetricRow(st, row, index, env) ==
    CHOOSE next \in { metricRowOutcome(st, index, env, v) : v \in {rowValues(row, env)} } :
        TRUE

----------------------------------------------------------------------------
(* A parse run: the preview route initialises the tracker and injects the  *)
(* resolvers, one sheet is parsed row by row (parseSingleSheet with a      *)
(* forced type; parseWorkbook runs the same two loops), then the metrics   *)
(* are split, the resolvers cleared and the summary read.                  *)

MaxRows == 2

\* new Date('2025-07-10T00:00:00Z'), the day the tests parse on
Today == [year |-> 2025, month |-> 7, day |-> 10]

sJun25 == <<"J", "u", "n", "-", "2", "5">>
sAug25 == <<"A", "u", "g", "-", "2", "5">>
sBlank == <<" ", " ">>
sUhcOrg == <<"u", "h", "c">>
sPerf == <<"P", "e", "r", "f">>
sACTIVITY_METRICS == <<"A", "C", "T", "I", "V", "I", "T", "Y", " ", "M", "E", "T", "R", "I", "C", "S">>
sNpsMetric == <<"n", "p", "s">>
sFooMetric == <<"f", "o", "o">>
sKPI == <<"K", "P", "I">>
sINSURANCE == <<"I", "N", "S", "U", "R", "A", "N", "C", "E">>

PeriodCells == {null, sJun25, sAug25}
OrganizationCells == {null, sUhcOrg}
ProgramCells == {sPerf, sACTIVITY_METRICS}
MetricCells == {null, sBlank, sNpsMetric, sFooMetric}

RowUniverse ==
    { [month_year |-> p, organization |-> o, program |-> g, metric |-> m] :
        p \in PeriodCells, o \in OrganizationCells, g \in ProgramCells, m \in MetricCells }

\* the rows of metric_aliases and industry_aliases of a run with dynamic rules
SessionMetricAliases ==
    << [canonical |-> sKPI, alias |-> sFooMetric, match_type |-> "contains",
        case_sensitive |-> FALSE, priority |-> 100, client |-> null],
       [canonical |-> <<>>, alias |-> sNpsMetric, match_type |-> "exact",
        case_sensitive |-> FALSE, priority |-> 100, client |-> null] >>
SessionIndustryAliases ==
    << [canonical |-> sINSURANCE, alias |-> sUhcOrg, match_type |-> "exact",
        case_sensitive |-> FALSE, priority |-> 100, client |-> null] >>

InitParse ==
    /\ rules = <<>> /\ tag = null /\ rawInput = null /\ resolved = null /\ rpc = "build"
    /\ ParserIdle
    /\ PreviewIdle
    /\ FileIdle
    /\ CallIdle
    /\ CommitIdle
    /\ AliasIdle

\* preview route: initNormalizationTracking, then a resolver is injected
\* for each alias table that is not empty
StartParse(kind, skip, withAliases) ==
    /\ ppc = "idle"
    /\ normalizationTracker' = EmptyTracker
    /\ dbMetricResolver' =
          IF withAliases THEN resolverOf(SessionMetricAliases, null) ELSE NoResolver
    /\ dbIndustryResolver' =
          IF withAliases THEN resolverOf(SessionIndustryAliases, null) ELSE NoResolver
    /\ options' = [kind |-> kind, skipDateFilter |-> skip, dynamic |-> withAliases]
    /\ stats' = initStats
    /\ parsed' = <<>>
    /\ ppc' = "parsing"
    /\ UNCHANGED <<lastRow, result, resolverVars, previewVars>>
    /\ UNCHANGED <<fileVars, callVars, commitVars, aliasVars>>

parseEnv ==
    [skipDateFilter |-> options.skipDateFilter, today |-> Today,
     metricResolver |-> dbMetricResolver, industryResolver |-> dbIndustryResolver]

\* one turn of rows.forEach
ParseRow(row) ==
    /\ ppc = "parsing"
    /\ stats.totalRows < MaxRows
    /\ LET st == [stats |-> stats, parsed |-> parsed, tracker |-> normalizationTracker]
       IN  \E next \in { IF options.kind = "behaviors"
                         THEN parseBehaviorRow(st, row, stats.totalRows, parseEnv)
                         ELSE parseMetricRow(st, row, stats.totalRows, parseEnv) } :
              /\ stats' = next.stats
              /\ parsed' = next.parsed
              /\ normalizationTracker' = next.tracker
    /\ lastRow' = row
    /\ UNCHANGED <<dbMetricResolver, dbIndustryResolver, options, result, ppc>>
    /\ UNCHANGED <<resolverVars, previewVars>>
    /\ UNCHANGED <<fileVars, callVars, commitVars, aliasVars>>

isActivity(row) == row.isActivityMetric
isMonthly(row) == ~row.isActivityMetric

\* the end of the loop: metrics.filter(...) twice, setDb*Resolver(null),
\* getNormalizationSummary()
FinishParse ==
    /\ ppc = "parsing"
    /\ result' =
          [monthlyMetrics |->
              IF options.kind = "metrics" THEN SelectSeq(parsed, isMonthly) ELSE <<>>,
           activityMetrics |->
              IF options.kind = "metrics" THEN SelectSeq(parsed, isActivity) ELSE <<>>,
           normalizations |-> summaryOf(normalizationTracker)]
    /\ normalizationTracker' = NoTracker
    /\ dbMetricResolver' = NoResolver
    /\ dbIndustryResolver' = NoResolver
    /\ ppc' = "done"
    /\ UNCHANGED <<options, stats, parsed, lastRow, resolverVars, previewVars>>
    /\ UNCHANGED <<fileVars, callVars, commitVars, aliasVars>>

NextParse ==
    \/ \E kind \in {"behaviors", "metrics"}, skip \in BOOLEAN, withAliases \in BOOLEAN :
          StartParse(kind, skip, withAliases)
    \/ \E row \in RowUniverse : ParseRow(row)
    \/ FinishParse

SpecParse == InitParse /\ [][NextParse]_vars

----------------------------------------------------------------------------
(* Properties of a parse run *)

Counters == {"acceptedRows", "filteredMissingData", "filteredTooRecent"}

Conserved ==
    stats.totalRows
        = stats.acceptedRows + stats.filteredMissingData + stats.filteredTooRecent

\* a step of the row loop: the run is under parse before and after it
rowStep == ppc = "parsing" /\ ppc' = "parsing"

addsOneToOneCounter ==
    /\ stats'.totalRows = stats.totalRows + 1
    /\ \E c \in Counters :
          /\ stats'[c] = stats[c] + 1
          /\ \A d \in Counters \ {c} : stats'[d] = stats[d]

\* C1: for both row transformers, totalRows = acceptedRows +
\* filteredMissingData + filteredTooRecent after every row and after the
\* whole run, and each row adds exactly 1 to totalRows and exactly 1 to
\* exactly one of the other three counters.
C1_RowCountConservation ==
    /\ []Conserved
    /\ [][rowStep => addsOneToOneCounter]_vars

C1_Witness ==
    /\ ppc = "done"
    /\ stats.totalRows = 2
    /\ stats.acceptedRows = 1
    /\ stats.filteredTooRecent = 1

\* the row processed last pushed the last record (ids are row index + 2)
lastRecordIsOfLastRow ==
    Len(parsed) > 0 /\ parsed[Len(parsed)].id = stats.totalRows + 1

\* C5: when a dynamic resolver is installed and returns a non-null value
\* for the metric (the organization's industry) of a row, that value is the
\* record's canonical metric (industry); the static fallback decides only
\* when the resolver is absent or returns null.
C5_DynamicResultWins ==
    (ppc = "parsing" /\ lastRecordIsOfLastRow) =>
        LET rec == parsed[Len(parsed)]
            metricValue == accessorGet(lastRow, "metric")
            organizationValue == accessorGet(lastRow, "organization")
        IN  /\ IF /\ dbMetricResolver.installed
                  /\ callResolver(dbMetricResolver, metricValue) # null
               THEN rec.amplifaiMetric = callResolver(dbMetricResolver, metricValue)
               ELSE rec.amplifaiMetric = deriveAmplifaiMetric(metricValue)
            /\ IF /\ dbIndustryResolver.installed
                  /\ callResolver(dbIndustryResolver, organizationValue) # null
               THEN rec.amplifaiIndustry
                        = callResolver(dbIndustryResolver, organizationValue)
               ELSE rec.amplifaiIndustry = deriveIndustryFromOrg(organizationValue)

memberSeq(x, s) == \E i \in DOMAIN s : s[i] = x

\* C7: every accepted metric record is in exactly one of monthlyMetrics and
\* activityMetrics, and it is in activityMetrics, with isActivityMetric
\* true, if and only if its program is exactly "ACTIVITY METRICS".
C7_ActivitySplit ==
    (ppc = "done" /\ options.kind = "metrics") =>
        \A i \in DOMAIN parsed :
            LET isActivityProgram == parsed[i].program = sACTIVITY_METRICS
            IN  /\ parsed[i].isActivityMetric <=> isActivityProgram
                /\ memberSeq(parsed[i], result.activityMetrics) <=> isActivityProgram
                /\ memberSeq(parsed[i], result.monthlyMetrics) <=> ~isActivityProgram

\* a step of the metric row loop over a row whose metric cell is absent
noMetricNameStep ==
    /\ rowStep
    /\ options.kind = "metrics"
    /\ accessorGet(lastRow', "metric") = null

\* the cell holds a period whose month ended less than nine days ago
periodTooRecent(cell) ==
    /\ parseMonthYear(cell).hasYear
    /\ ~isMonthOldEnough(parseMonthYear(cell).month, parseMonthYear(cell).year, Today)

\* C8, as claimed: a metric row with no metric name produces no record and
\* is counted under filteredMissingData, for every combination of the other
\* fields and both settings of the date filter, a period that is valid but
\* too recent under an enabled filter included.
C8_NoMetricNameIsMissingData ==
    [][noMetricNameStep =>
          /\ parsed' = parsed
          /\ stats'.filteredMissingData = stats.filteredMissingData + 1]_vars

\* C8, amended: a metric row with no metric name produces no record; it is
\* counted under filteredTooRecent when the date filter is enabled and its
\* period is valid but too recent, and under filteredMissingData otherwise.
C8_NoMetricNameNeverARecord ==
    [][noMetricNameStep =>
          /\ parsed' = parsed
          /\ IF /\ ~options.skipDateFilter
                /\ periodTooRecent(accessorGet(lastRow', "month_year"))
             THEN /\ stats'.filteredTooRecent = stats.filteredTooRecent + 1
                  /\ stats'.filteredMissingData = stats.filteredMissingData
             ELSE /\ stats'.filteredMissingData = stats.filteredMissingData + 1
                  /\ stats'.filteredTooRecent = stats.filteredTooRecent]_vars

C8_Witness ==
    /\ ppc = "parsing"
    /\ options.kind = "metrics"
    /\ ~options.skipDateFilter
    /\ lastRow.metric = null
    /\ lastRow.month_year = sAug25
    /\ lastRow.organization = sUhcOrg
    /\ stats.totalRows = 1
    /\ stats.filteredTooRecent = 1
    /\ parsed = <<>>

whitespaceOnly(cell) == cell # null /\ cell # <<>> /\ trim(cell) = <<>>

\* C9: every emitted record has a non-null month, year, organization and
\* program and, for a metric record, a non-null metricName; a row whose
\* required cell holds only whitespace yields no record.
C9_RecordsHaveRequiredFields ==
    /\ \A i \in DOMAIN parsed :
          /\ parsed[i].month # null
          /\ parsed[i].organization # null
          /\ parsed[i].program # null
          /\ options.kind = "metrics" => parsed[i].metricName # null
    /\ ( /\ ppc = "parsing"
         /\ stats.totalRows > 0
         /\ \/ whitespaceOnly(lastRow.organization)
            \/ whitespaceOnly(lastRow.program)
            \/ options.kind = "metrics" /\ whitespaceOnly(lastRow.metric) )
       => ~lastRecordIsOfLastRow

recordMetric(rec, kind) == IF kind = "metrics" THEN rec.metricName ELSE rec.metric
metricOf(rec) == recordMetric(rec, options.kind)

\* a dynamic or a static mapping rule matches the metric name
ruleFired(name) ==
    \/ options.dynamic /\ resolveWith(SessionMetricAliases, null, name) # null
    \/ matchAgainstMappings(name, METRIC_MAPPINGS) # null

entriesFor(list, field, name) == { i \in DOMAIN list : list[i][field] = name }

\* C10: after a parse run a metric name is in unmatchedMetrics, in exactly
\* one entry that counts its occurrences, if and only if no dynamic or
\* static rule fired for it; such a name is not in the metrics
\* normalization list, and a name a rule fired for is never unmatched.
C10_UnmatchedIffNoRuleFired ==
    ppc = "done" =>
        \A i \in DOMAIN parsed :
            LET name == metricOf(parsed[i])
                unmatched == entriesFor(result.normalizations.unmatchedMetrics, "key", name)
                occurrences == { j \in DOMAIN parsed : metricOf(parsed[j]) = name }
            IN  name # null =>
                    IF ruleFired(name)
                    THEN unmatched = {}
                    ELSE /\ Cardinality(unmatched) = 1
                         /\ \A e \in unmatched :
                               result.normalizations.unmatchedMetrics[e].count
                                   = Cardinality(occurrences)
                         /\ entriesFor(result.normalizations.metrics, "key", name) = {}

----------------------------------------------------------------------------
(* The preview route (POST): requests of one process interleave at their   *)
(* awaits; what runs between two awaits is one step.  A request carries a  *)
(* single sheet (mode behaviors or metrics), which the route parses with   *)
(* the date filter off, or a file the route answers 400 for.               *)

MaxSheetRows == 1

\* rows.forEach over a sheet, from the state st on
RECURSIVE parseRows(_, _, _, _)
parseRows(kind, rows, st, env) ==
    IF rows = <<>> THEN st
    ELSE CHOOSE out \in
            { parseRows(kind, Tail(rows), next, env) :
                next \in { IF kind = "behaviors"
                           THEN parseBehaviorRow(st, Head(rows), st.stats.totalRows, env)
                           ELSE parseMetricRow(st, Head(rows), st.stats.totalRows, env) } } :
            TRUE

PreviewRows ==
    { row \in RowUniverse :
        /\ row.month_year = sJun25
        /\ row.organization = sUhcOrg
        /\ row.program = sPerf }

PreviewSheets ==
    { [kind |-> k, rows |-> rows] :
        k \in {"behaviors", "metrics"},
        rows \in UNION { [1..n -> PreviewRows] : n \in 1..MaxSheetRows } }

\* formData.get('client'): the two requests of the model carry different
\* client tags
clientOverride(r) == IF r = 1 THEN ClientA ELSE ClientB

\* what a request posts: a single sheet in mode behaviors or metrics, a .csv
\* file in mode combined ("csvCombined"), or a workbook without sheets
\* ("noSheets"), which the parser throws on
PreviewForms(r) ==
    { [kind |-> sheet.kind, rows |-> sheet.rows, client |-> clientOverride(r)] :
        sheet \in PreviewSheets }
    \cup { [kind |-> k, rows |-> <<>>, client |-> clientOverride(r)] :
             k \in {"csvCombined", "noSheets"} }

sCSAT == <<"C", "S", "A", "T">>
sPERF == <<"P", "E", "R", "F">>
sJun == <<"J", "u", "n">>

\* the rows of metric_aliases while the requests run: the rules of a parse
\* run and one rule that holds for ClientA only
PreviewMetricAliases ==
    << [canonical |-> sCSAT, alias |-> sFooMetric, match_type |-> "exact",
        case_sensitive |-> FALSE, priority |-> 100, client |-> ClientA] >>
    \o SessionMetricAliases

\* v ?? ''
orEmpty(v) == IF v = null THEN <<>> ELSE v

\* `${n}` for a number n >= 0
RECURSIVE decimal(_)
decimal(n) ==
    IF n < 10 THEN <<DigitChars[n + 1]>>
    ELSE decimal(n \div 10) \o <<DigitChars[(n % 10) + 1]>>

buildBehaviorKey(org, program, metric, behavior, subBehavior, month, year) ==
    toLowerCase(org \o <<"|">> \o program \o <<"|">> \o metric \o <<"|">> \o behavior
                \o <<"|">> \o subBehavior \o <<"|">> \o month \o <<"|">> \o decimal(year))

buildMetricKey(org, program, metricName, month, year) ==
    toLowerCase(org \o <<"|">> \o program \o <<"|">> \o metricName \o <<"|">> \o month
                \o <<"|">> \o decimal(year))

\* rows of behavioral_coaching and of monthly_metrics that a duplicate query
\* for the client and the months of the upload can find
StoredBehaviors ==
    { [organization |-> sUHC, program |-> sPERF, metric |-> sNPS, behavior |-> null,
       sub_behavior |-> null, month |-> sJun, year |-> 2025] }
StoredMetrics ==
    { [organization |-> sUHC, program |-> sPERF, metric_name |-> sNPS,
       month |-> sJun, year |-> 2025] }

\* { data: existing, error } of the duplicate query for rows: none is sent
\* when there are no rows
QueryOutcomes(rows, stored) ==
    IF rows = <<>> THEN { [error |-> FALSE, data |-> {}] }
    ELSE { [error |-> TRUE, data |-> {}] }
         \cup { [error |-> FALSE, data |-> data] : data \in SUBSET stored }

\* filterDuplicateBehaviors(rows, client), the query answering `query`; the
\* sheets of the model have no behavior and no sub-behavior column
filterDuplicateBehaviors(rows, query) ==
    IF rows = <<>> \/ query.error THEN [unique |-> rows, duplicateCount |-> 0]
    ELSE LET existingKeys ==
                 { buildBehaviorKey(orEmpty(row.organization), orEmpty(row.program),
                                    orEmpty(row.metric), orEmpty(row.behavior),
                                    orEmpty(row.sub_behavior), orEmpty(row.month),
                                    row.year) : row \in query.data }
             isUnique(row) ==
                 buildBehaviorKey(orEmpty(row.organization), orEmpty(row.program),
                                  orEmpty(row.metric), <<>>, <<>>, row.month, row.year)
                     \notin existingKeys
         IN  [unique |-> SelectSeq(rows, isUnique),
              duplicateCount |-> Len(rows) - Len(SelectSeq(rows, isUnique))]

\* filterDuplicateMonthlyMetrics(rows, client) and
\* filterDuplicateActivityMetrics(rows, client)
filterDuplicateMetrics(rows, query) ==
    IF rows = <<>> \/ query.error THEN [unique |-> rows, duplicateCount |-> 0]
    ELSE LET existingKeys ==
                 { buildMetricKey(orEmpty(row.organization), orEmpty(row.program),
                                  orEmpty(row.metric_name), orEmpty(row.month),
                                  row.year) : row \in query.data }
             isUnique(row) ==
                 buildMetricKey(orEmpty(row.organization), orEmpty(row.program),
                                orEmpty(row.metricName), row.month, row.year)
                     \notin existingKeys
         IN  [unique |-> SelectSeq(rows, isUnique),
              duplicateCount |-> Len(rows) - Len(SelectSeq(rows, isUnique))]

\* a Map in which entry e is found under e.id; an entry is expired once
\* Date.now() has reached its expiresAt
purgeExpired(entries) == { e \in entries : ~e.expired }

\* nanoid() and computeChecksum(buffer) of the upload of request r
previewIdOf(r) == IF r = 1 THEN "n1" ELSE "n2"
checksumOf(r) == IF r = 1 THEN "c1" ELSE "c2"

InitPreview ==
    /\ rules = <<>> /\ tag = null /\ rawInput = null /\ resolved = null /\ rpc = "build"
    /\ ParserIdle
    /\ PreviewIdle
    /\ FileIdle
    /\ CallIdle
    /\ CommitIdle
    /\ AliasIdle

\* from the last await on the form data to await loadMetricAliases():
\* initNormalizationTracking()
Begin(r, form) ==
    /\ pc[r] = "idle"
    /\ upload' = [upload EXCEPT ![r] = form]
    /\ normalizationTracker' = EmptyTracker
    /\ pc' = [pc EXCEPT ![r] = "loadMetricAliases"]
    /\ UNCHANGED <<dbMetricResolver, dbIndustryResolver, local, response>>
    /\ UNCHANGED <<resolverVars, parseVars>>
    /\ UNCHANGED <<fileVars, callVars, commitVars, aliasVars>>

\* loadMetricAliases() resolves; the resolver is set when there are aliases;
\* up to await loadIndustryAliases()
MetricAliasesLoaded(r, found) ==
    /\ pc[r] = "loadMetricAliases"
    /\ dbMetricResolver' =
          IF found THEN resolverOf(PreviewMetricAliases, upload[r].client)
          ELSE dbMetricResolver
    /\ local' = [local EXCEPT ![r].aliases = found]
    /\ pc' = [pc EXCEPT ![r] = "loadIndustryAliases"]
    /\ UNCHANGED <<normalizationTracker, dbIndustryResolver, upload, response>>
    /\ UNCHANGED <<resolverVars, parseVars>>
    /\ UNCHANGED <<fileVars, callVars, commitVars, aliasVars>>

\* the industry resolver the request sets when there are aliases
industryResolverSet(r, found) ==
    IF found THEN resolverOf(SessionIndustryAliases, upload[r].client)
    ELSE dbIndustryResolver

\* a .csv file in mode combined: the 400 returned from inside the try block
CsvInCombinedMode(r, found) ==
    /\ upload[r].kind = "csvCombined"
    /\ dbIndustryResolver' = industryResolverSet(r, found)
    /\ response' = [response EXCEPT ![r] = [sent |-> TRUE, status |-> 400]]
    /\ pc' = [pc EXCEPT ![r] = "responded"]
    /\ UNCHANGED <<dbMetricResolver, normalizationTracker>>

\* the parser throws: the catch clears the resolvers and answers 400
ParseThrows(r) ==
    /\ upload[r].kind = "noSheets"
    /\ dbMetricResolver' = NoResolver
    /\ dbIndustryResolver' = NoResolver
    /\ response' = [response EXCEPT ![r] = [sent |-> TRUE, status |-> 400]]
    /\ pc' = [pc EXCEPT ![r] = "responded"]
    /\ UNCHANGED normalizationTracker

\* the sheet is parsed, the resolvers cleared and the summary read, up to
\* the await on the three duplicate queries
ParseSucceeds(r, found) ==
    /\ upload[r].kind \in {"behaviors", "metrics"}
    /\ LET env == [skipDateFilter |-> TRUE, today |-> Today,
                   metricResolver |-> dbMetricResolver,
                   industryResolver |-> industryResolverSet(r, found)]
           st == [stats |-> initStats, parsed |-> <<>>, tracker |-> normalizationTracker]
       IN  \E out \in { parseRows(upload[r].kind, upload[r].rows, st, env) } :
              local' = [local EXCEPT ![r].industryAliases = found,
                                     ![r].parsed =
                                         [done |-> TRUE, rows |-> out.parsed,
                                          stats |-> out.stats,
                                          normalizations |-> summaryOf(out.tracker)]]
    /\ dbMetricResolver' = NoResolver
    /\ dbIndustryResolver' = NoResolver
    /\ normalizationTracker' = NoTracker
    /\ pc' = [pc EXCEPT ![r] = "filterDuplicates"]
    /\ UNCHANGED response

\* loadIndustryAliases() resolves; the resolver is set when there are
\* aliases, then the try block runs
IndustryAliasesLoaded(r, found) ==
    /\ pc[r] = "loadIndustryAliases"
    /\ \/ CsvInCombinedMode(r, found) /\ local' = [local EXCEPT ![r].industryAliases = found]
       \/ ParseThrows(r) /\ local' = [local EXCEPT ![r].industryAliases = found]
       \/ ParseSucceeds(r, found)
    /\ UNCHANGED <<upload, resolverVars, parseVars>>
    /\ UNCHANGED <<fileVars, callVars, commitVars, aliasVars>>

\* parsed.behaviors, parsed.monthlyMetrics, parsed.activityMetrics and
\* parsed.meta of a single-sheet upload
parsedOf(r) ==
    [behaviors |-> IF upload[r].kind = "behaviors" THEN local[r].parsed.rows ELSE <<>>,
     monthlyMetrics |->
         IF upload[r].kind = "metrics" THEN SelectSeq(local[r].parsed.rows, isMonthly)
         ELSE <<>>,
     activityMetrics |->
         IF upload[r].kind = "metrics" THEN SelectSeq(local[r].parsed.rows, isActivity)
         ELSE <<>>,
     meta |-> [behaviorStats |->
                   IF upload[r].kind = "behaviors" THEN local[r].parsed.stats
                   ELSE initStats,
               metricStats |->
                   IF upload[r].kind = "metrics" THEN local[r].parsed.stats
                   ELSE initStats]]

\* the three duplicate queries resolve: the unique rows replace the parsed
\* ones, the preview is saved and the response sent
DuplicatesChecked(r) ==
    /\ pc[r] = "filterDuplicates"
    /\ \E p \in {parsedOf(r)} :
          \E behaviorResult \in
                 { filterDuplicateBehaviors(p.behaviors, query) :
                     query \in QueryOutcomes(p.behaviors, StoredBehaviors) },
             monthlyResult \in
                 { filterDuplicateMetrics(p.monthlyMetrics, query) :
                     query \in QueryOutcomes(p.monthlyMetrics, StoredMetrics) },
             activityResult \in
                 { filterDuplicateMetrics(p.activityMetrics, query) :
                     query \in QueryOutcomes(p.activityMetrics, StoredMetrics) } :
             \E dedupedParsed \in {[behaviors |-> behaviorResult.unique,
                                    monthlyMetrics |-> monthlyResult.unique,
                                    activityMetrics |-> activityResult.unique,
                                    meta |-> p.meta]} :
                /\ cache' = purgeExpired(cache) \cup
                              {[id |-> previewIdOf(r), checksum |-> checksumOf(r),
                                expired |-> FALSE, payload |-> dedupedParsed]}
                /\ response' = [response EXCEPT ![r] =
                      [sent |-> TRUE, status |-> 200,
                       previewId |-> previewIdOf(r), checksum |-> checksumOf(r),
                       meta |-> dedupedParsed.meta,
                       duplicates |-> [behaviors |-> behaviorResult.duplicateCount,
                                       monthlyMetrics |-> monthlyResult.duplicateCount,
                                       activityMetrics |-> activityResult.duplicateCount],
                       normalizations |-> local[r].parsed.normalizations,
                       data |-> [behaviors |-> dedupedParsed.behaviors,
                                 monthlyMetrics |-> dedupedParsed.monthlyMetrics,
                                 activityMetrics |-> dedupedParsed.activityMetrics]]]
    /\ pc' = [pc EXCEPT ![r] = "responded"]
    /\ UNCHANGED <<upload, local, moduleVars, resolverVars, parseVars>>
    /\ UNCHANGED <<store, commits, tables>>
    /\ UNCHANGED <<fileVars, callVars, aliasVars>>

NextPreview ==
    \/ \E r \in Requests : \E form \in PreviewForms(r) : Begin(r, form)
    \/ \E r \in Requests, found \in BOOLEAN : MetricAliasesLoaded(r, found)
    \/ \E r \in Requests, found \in BOOLEAN : IndustryAliasesLoaded(r, found)
    \/ \E r \in Requests : DuplicatesChecked(r)

SpecPreview == InitPreview /\ [][NextPreview]_vars

\* the tracker a request's own records fill, from an empty one
RECURSIVE ownEvents(_, _, _)
ownEvents(kind, records, tracker) ==
    IF records = <<>> THEN tracker
    ELSE CHOOSE out \in
            { ownEvents(kind, Tail(records), next) :
                next \in { trackRow(tracker, Head(records).organization,
                                    recordMetric(Head(records), kind),
                                    Head(records).amplifaiOrg,
                                    Head(records).amplifaiMetric,
                                    Head(records).amplifaiIndustry) } } :
            TRUE

\* C6: when two preview requests interleave at their awaits, the
\* normalization summary of each holds exactly the tracker events of its own
\* rows: none of the other request, none of its own lost.
C6_SummaryHoldsOwnEvents ==
    \A r \in Requests :
        (pc[r] = "responded" /\ response[r].status = 200) =>
            response[r].normalizations
                = summaryOf(ownEvents(upload[r].kind, local[r].parsed.rows, EmptyTracker))

\* C25: whenever a preview request returns, by whichever path, both
\* dbMetricResolver and dbIndustryResolver are null.
C25_ResolversNullAtReturn ==
    [][(\E r \in Requests : pc[r] # "responded" /\ pc'[r] = "responded")
          => (dbMetricResolver' = NoResolver /\ dbIndustryResolver' = NoResolver)]_vars

\* the resolvers built from the snapshots and the client tag of request r
ownResolvers(r) ==
    [skipDateFilter |-> TRUE, today |-> Today,
     metricResolver |->
         IF local[r].aliases THEN resolverOf(PreviewMetricAliases, upload[r].client)
         ELSE NoResolver,
     industryResolver |->
         IF local[r].industryAliases
         THEN resolverOf(SessionIndustryAliases, upload[r].client)
         ELSE NoResolver]

\* C26: in every interleaving of two preview requests with different client
\* tags, the rows a request parsed are the rows its sheet gives with the
\* resolvers built from its own snapshots and client tag (with no dynamic
\* resolver where its snapshot was empty).
C26_RowsResolvedByOwnResolvers ==
    \A r \in Requests :
        local[r].parsed.done =>
            local[r].parsed.rows =
                parseRows(upload[r].kind, upload[r].rows,
                          [stats |-> initStats, parsed |-> <<>>, tracker |-> EmptyTracker],
                          ownResolvers(r)).parsed

\* C23: in every preview response meta.behaviorStats.acceptedRows is the
\* number of rows of data.behaviors, also when parsed behaviour rows were
\* excluded as duplicates of stored rows.
C23_AcceptedRowsCountsBehaviors ==
    \A r \in Requests :
        (response[r].sent /\ response[r].status = 200) =>
            response[r].meta.behaviorStats.acceptedRows = Len(response[r].data.behaviors)

----------------------------------------------------------------------------
(* A file run: one of the entry points parseWorkbook, parseSingleSheet or  *)
(* parseCsv is handed a file and returns its result or throws.  A sheet is *)
(* [name, columns, rows]: columns are the keys every row object of         *)
(* sheet_to_json({defval: null}) carries, rows the cells the transformers  *)
(* read.                                                                   *)

\* createRowAccessor: the keys of keyMap
keyMap(columns) == { trim(toLowerCase(key)) : key \in columns }

\* accessor.hasAny(...names)
hasAny(columns, names) ==
    \E keys \in {keyMap(columns)} :
        \E name \in names : trim(toLowerCase(name)) \in keys

BehaviorSheetNames ==
    { <<"b", "e", "h", "a", "v", "i", "o", "r">>, <<"b", "e", "h", "a", "v", "i", "o", "r", "s">>, <<"b", "e", "h", "a", "v", "i", "o", "u", "r">>, <<"b", "e", "h", "a", "v", "i", "o", "u", "r", "s">>,
      <<"s", "u", "b", "b", "e", "h", "a", "v", "i", "o", "r", "s">>, <<"s", "u", "b", "-", "b", "e", "h", "a", "v", "i", "o", "r">>, <<"s", "u", "b", "b", "e", "h", "a", "v", "i", "o", "r">> }
MetricColumnNames == { <<"a", "c", "t", "u", "a", "l">>, <<"a", "c", "t", "u", "a", "l", "s">>, <<"g", "o", "a", "l">>, <<"g", "o", "a", "l", "s">>, <<"p", "t", "g">>, <<"s", "u", "m", " ", "o", "f", " ", "p", "t", "g">> }
BehaviorColumnNames == { <<"b", "e", "h", "a", "v", "i", "o", "r">>, <<"b", "e", "h", "a", "v", "i", "o", "r", "s">>, <<"b", "e", "h", "a", "v", "i", "o", "u", "r">>, <<"b", "e", "h", "a", "v", "i", "o", "u", "r", "s">> }

looksLikeBehaviorSheet(sheet) ==
    IF sheet.rows = <<>> THEN FALSE
    ELSE hasAny(sheet.columns, BehaviorSheetNames)

looksLikeMetricSheet(sheet) ==
    IF sheet.rows = <<>> THEN FALSE
    ELSE LET hasMetricColumns == hasAny(sheet.columns, MetricColumnNames)
             hasBehaviorColumns == hasAny(sheet.columns, BehaviorColumnNames)
         IN  hasMetricColumns /\ ~hasBehaviorColumns

\* workbook.SheetNames
SheetNames(wb) == [i \in DOMAIN wb |-> wb[i].name]
SheetNamesIncludes(wb, name) == \E i \in DOMAIN wb : wb[i].name = name
\* workbook.Sheets[name], for a name of SheetNames
sheetOf(wb, name) == wb[CHOOSE i \in DOMAIN wb : wb[i].name = name]

sEffectivenessKeyword == <<"e", "f", "f", "e", "c", "t", "i", "v", "e", "n", "e", "s", "s">>
sGoalKeyword == <<"g", "o", "a", "l">>

pickSheet(wb, keyword, explicit) ==
    IF truthy(explicit) /\ SheetNamesIncludes(wb, explicit) THEN explicit
    ELSE LET lowerKeyword == toLowerCase(keyword)
             hits == { i \in DOMAIN wb : includes(toLowerCase(wb[i].name), lowerKeyword) }
         IN  IF hits # {} THEN wb[CHOOSE i \in hits : \A j \in hits : i <= j].name
             ELSE IF wb # <<>> THEN wb[1].name
             ELSE null

\* the loop of autoDetectSheets over the sheets from position i on
RECURSIVE detectFrom(_, _, _)
detectFrom(wb, i, found) ==
    IF i > Len(wb) THEN found
    ELSE IF found.behaviorSheet # null /\ found.metricSheet # null THEN found
    ELSE IF wb[i].rows = <<>> THEN detectFrom(wb, i + 1, found)
    ELSE IF found.behaviorSheet = null /\ looksLikeBehaviorSheet(wb[i])
         THEN detectFrom(wb, i + 1, [found EXCEPT !.behaviorSheet = wb[i].name])
    ELSE IF found.metricSheet = null /\ looksLikeMetricSheet(wb[i])
         THEN detectFrom(wb, i + 1, [found EXCEPT !.metricSheet = wb[i].name])
    ELSE detectFrom(wb, i + 1, found)

autoDetectSheets(wb) == detectFrom(wb, 1, [behaviorSheet |-> null, metricSheet |-> null])

\* the two names parseWorkbook settles on
resolveSheets(wb, behaviorSheetHint, metricSheetHint) ==
    LET autoDetected == autoDetectSheets(wb)
        behaviorSheetName ==
            IF truthy(behaviorSheetHint)
            THEN pickSheet(wb, sEffectivenessKeyword, behaviorSheetHint)
            ELSE IF autoDetected.behaviorSheet # null THEN autoDetected.behaviorSheet
            ELSE pickSheet(wb, sEffectivenessKeyword, null)
        metricSheetName ==
            IF truthy(metricSheetHint)
            THEN pickSheet(wb, sGoalKeyword, metricSheetHint)
            ELSE IF autoDetected.metricSheet # null THEN autoDetected.metricSheet
            ELSE pickSheet(wb, sGoalKeyword, null)
        same == behaviorSheetName = metricSheetName /\ Len(wb) > 1
    IN  [behaviors |-> IF same /\ autoDetected.behaviorSheet # null
                       THEN autoDetected.behaviorSheet ELSE behaviorSheetName,
         metrics |-> IF same /\ autoDetected.metricSheet # null
                     THEN autoDetected.metricSheet ELSE metricSheetName,
         autoDetected |-> autoDetected]

\* an entry of issues: what it reports, for which dataset, how many rows
issue(what, dataset, count) == [what |-> what, dataset |-> dataset, rows |-> count]

ifIssue(cond, entry) == IF cond THEN <<entry>> ELSE <<>>

\* an optional boolean: left out, or given with a value
Omitted == [given |-> FALSE, value |-> FALSE]
Given(b) == [given |-> TRUE, value |-> b]

\* options.skipDateFilter ?? true
skipDateFilterOf(opts) ==
    IF opts.skipDateFilter.given THEN opts.skipDateFilter.value ELSE TRUE

fileEnv(opts) ==
    [skipDateFilter |-> skipDateFilterOf(opts), today |-> opts.today,
     metricResolver |-> dbMetricResolver, industryResolver |-> dbIndustryResolver]

freshRun == [stats |-> initStats, parsed |-> <<>>, tracker |-> normalizationTracker]

\* what parseWorkbook returns for the two runs over the sheets it chose
workbookResult(opts, sheets, behaviorRun, metricRun) ==
    [done |-> TRUE, threw |-> FALSE,
     behaviors |-> behaviorRun.parsed,
     monthlyMetrics |-> SelectSeq(metricRun.parsed, isMonthly),
     activityMetrics |-> SelectSeq(metricRun.parsed, isActivity),
     sheets |-> [behaviors |-> sheets.behaviors, metrics |-> sheets.metrics],
     behaviorStats |-> behaviorRun.stats,
     metricStats |-> metricRun.stats,
     issues |->
        ifIssue(sheets.behaviors = null /\ sheets.autoDetected.behaviorSheet = null,
                issue("noSheet", "behaviors", 0))
        \o ifIssue(sheets.metrics = null /\ sheets.autoDetected.metricSheet = null,
                   issue("noSheet", "metrics", 0))
        \o ifIssue(behaviorRun.stats.filteredMissingData > 0,
                   issue("filteredMissingData", "behaviors",
                         behaviorRun.stats.filteredMissingData))
        \o ifIssue(metricRun.stats.filteredMissingData > 0,
                   issue("filteredMissingData", "metrics",
                         metricRun.stats.filteredMissingData))
        \o ifIssue(~skipDateFilterOf(opts) /\ behaviorRun.stats.filteredTooRecent > 0,
                   issue("filteredTooRecent", "behaviors",
                         behaviorRun.stats.filteredTooRecent))
        \o ifIssue(~skipDateFilterOf(opts) /\ metricRun.stats.filteredTooRecent > 0,
                   issue("filteredTooRecent", "metrics",
                         metricRun.stats.filteredTooRecent))]

thrown(message) == [done |-> TRUE, threw |-> TRUE, message |-> message]

parseWorkbook(wb, opts) ==
    IF wb = <<>> THEN thrown("The uploaded workbook does not contain any sheets.")
    ELSE CHOOSE out \in UNION
        { { workbookResult(opts, sheets, behaviorRun, metricRun) :
              behaviorRun \in
                 { parseRows("behaviors",
                             IF sheets.behaviors # null
                             THEN sheetOf(wb, sheets.behaviors).rows ELSE <<>>,
                             freshRun, fileEnv(opts)) },
              metricRun \in
                 { parseRows("metrics",
                             IF sheets.metrics # null
                             THEN sheetOf(wb, sheets.metrics).rows ELSE <<>>,
                             freshRun, fileEnv(opts)) } } :
          sheets \in { resolveSheets(wb, opts.behaviorSheetHint, opts.metricSheetHint) } } :
        TRUE

\* what parseSingleSheet and parseCsv return for a sheet with rows
sheetResult(sheetName, detectedType, run) ==
    [done |-> TRUE, threw |-> FALSE,
     behaviors |-> IF detectedType = "behaviors" THEN run.parsed ELSE <<>>,
     monthlyMetrics |->
        IF detectedType = "metrics" THEN SelectSeq(run.parsed, isMonthly) ELSE <<>>,
     activityMetrics |->
        IF detectedType = "metrics" THEN SelectSeq(run.parsed, isActivity) ELSE <<>>,
     stats |-> run.stats,
     sheetName |-> sheetName,
     detectedType |-> detectedType,
     issues |->
        IF detectedType = "unknown"
        THEN << issue("undetected", "unknown", 0), issue("columns", "unknown", 0) >>
        ELSE ifIssue(run.stats.filteredMissingData > 0,
                     issue("filteredMissingData", detectedType,
                           run.stats.filteredMissingData))]

emptySheetResult(sheetName) ==
    [done |-> TRUE, threw |-> FALSE,
     behaviors |-> <<>>, monthlyMetrics |-> <<>>, activityMetrics |-> <<>>,
     stats |-> initStats, sheetName |-> sheetName, detectedType |-> "unknown",
     issues |-> << issue("empty", "unknown", 0) >>]

\* forceType, else what the first row looks like
detectType(sheet, forceType) ==
    IF forceType # "undefined" THEN forceType
    ELSE IF looksLikeBehaviorSheet(sheet) THEN "behaviors"
    ELSE IF looksLikeMetricSheet(sheet) THEN "metrics"
    ELSE "unknown"

\* the rest of parseSingleSheet and parseCsv once the sheet is chosen
parseChosenSheet(sheet, reportedName, opts) ==
    IF sheet.rows = <<>> THEN emptySheetResult(reportedName)
    ELSE CHOOSE out \in UNION
        { { sheetResult(reportedName, detectedType, run) :
              run \in { IF detectedType = "unknown" THEN freshRun
                        ELSE parseRows(detectedType, sheet.rows, freshRun,
                                       fileEnv(opts)) } } :
          detectedType \in { detectType(sheet, opts.forceType) } } :
        TRUE

parseSingleSheet(wb, opts) ==
    IF wb = <<>> THEN thrown("The uploaded workbook does not contain any sheets.")
    ELSE LET sheetName == IF truthy(opts.sheetName) /\ SheetNamesIncludes(wb, opts.sheetName)
                          THEN opts.sheetName
                          ELSE wb[1].name
         IN  IF ~SheetNamesIncludes(wb, sheetName) THEN thrown("Sheet not found in workbook.")
             ELSE parseChosenSheet(sheetOf(wb, sheetName), sheetName, opts)

sFileName == <<"f", ".", "c", "s", "v">>

parseCsv(wb, opts) ==
    IF wb = <<>> THEN thrown("The uploaded CSV file could not be parsed.")
    ELSE parseChosenSheet(wb[1], sFileName, opts)

sData == <<"D", "a", "t", "a">>
sGoals == <<"G", "o", "a", "l", "s">>
sOther == <<"O", "t", "h", "e", "r">>
sColOrganization == <<"O", "r", "g", "a", "n", "i", "z", "a", "t", "i", "o", "n">>
sColBehavior == <<" ", "B", "e", "h", "a", "v", "i", "o", "r">>
sColSubBehavior == <<"S", "u", "b", "-", "B", "e", "h", "a", "v", "i", "o", "r">>
sColActual == <<"A", "c", "t", "u", "a", "l">>
sColGoal == <<"G", "O", "A", "L">>

SheetNameSet == {sData, sGoals}
SheetHints == {null, sData, sOther}
ForceTypes == {"undefined", "behaviors", "metrics"}

\* the day before and the day on which June 2025 is 9 days old
Jul8 == [year |-> 2025, month |-> 7, day |-> 8]
Jul9 == [year |-> 2025, month |-> 7, day |-> 9]

\* options.skipDateFilter and options.today; today is varied where the
\* date filter reads it
DateOptions ==
    { [skipDateFilter |-> Omitted, today |-> Jul8],
      [skipDateFilter |-> Given(TRUE), today |-> Jul8],
      [skipDateFilter |-> Given(FALSE), today |-> Jul8],
      [skipDateFilter |-> Given(FALSE), today |-> Jul9] }

Headers ==
    { {sColOrganization},
      {sColOrganization, sColBehavior, sColGoal},
      {sColOrganization, sColActual},
      {sColOrganization, sColSubBehavior, sColActual} }

\* a row of June 2025 and a row with no period
FileRows ==
    { row \in RowUniverse :
        /\ row.month_year \in {null, sJun25}
        /\ row.organization = sUhcOrg
        /\ row.program = sPerf
        /\ row.metric = sNpsMetric }

\* a sheet has no data row or one
RowLists == {<<>>} \cup { <<row>> : row \in FileRows }

SheetContents == [columns : Headers, rows : RowLists]

sheet(name, content) == [name |-> name, columns |-> content.columns, rows |-> content.rows]

\* files of no, one or two sheets; sheet names are unique in a workbook
Workbooks ==
    {<<>>}
    \cup { <<sheet(n, c)>> : n \in SheetNameSet, c \in SheetContents }
    \cup { <<sheet(n[1], c1), sheet(n[2], c2)>> :
             n \in { m \in SheetNameSet \X SheetNameSet : m[1] # m[2] },
             c1 \in SheetContents, c2 \in SheetContents }

InitFile ==
    /\ rules = <<>> /\ tag = null /\ rawInput = null /\ resolved = null /\ rpc = "build"
    /\ ParserIdle
    /\ PreviewIdle
    /\ CallIdle
    /\ CommitIdle
    /\ AliasIdle
    /\ workbook \in Workbooks
    /\ request = [entry |-> "none"]
    /\ outcome = [done |-> FALSE]

ParseWorkbook(opts) ==
    /\ request.entry = "none"
    /\ request' = [entry |-> "parseWorkbook", options |-> opts]
    /\ outcome' = parseWorkbook(workbook, opts)
    /\ UNCHANGED <<workbook, resolverVars, moduleVars, parseVars, previewVars, callVars,
                   commitVars, aliasVars>>

ParseSingleSheet(opts) ==
    /\ request.entry = "none"
    /\ request' = [entry |-> "parseSingleSheet", options |-> opts]
    /\ outcome' = parseSingleSheet(workbook, opts)
    /\ UNCHANGED <<workbook, resolverVars, moduleVars, parseVars, previewVars, callVars,
                   commitVars, aliasVars>>

\* read() of a CSV string yields one sheet
ParseCsv(opts) ==
    /\ request.entry = "none"
    /\ Len(workbook) <= 1
    /\ request' = [entry |-> "parseCsv", options |-> opts]
    /\ outcome' = parseCsv(workbook, opts)
    /\ UNCHANGED <<workbook, resolverVars, moduleVars, parseVars, previewVars, callVars,
                   commitVars, aliasVars>>

NextFile ==
    \/ \E behaviorSheetHint \in SheetHints, metricSheetHint \in SheetHints,
          dates \in DateOptions :
          ParseWorkbook([behaviorSheetHint |-> behaviorSheetHint,
                         metricSheetHint |-> metricSheetHint,
                         skipDateFilter |-> dates.skipDateFilter, today |-> dates.today])
    \/ \E sheetName \in SheetHints, forceType \in ForceTypes, dates \in DateOptions :
          ParseSingleSheet([sheetName |-> sheetName, forceType |-> forceType,
                            skipDateFilter |-> dates.skipDateFilter, today |-> dates.today])
    \/ \E forceType \in ForceTypes, dates \in DateOptions :
          ParseCsv([forceType |-> forceType,
                    skipDateFilter |-> dates.skipDateFilter, today |-> dates.today])

SpecFile == InitFile /\ [][NextFile]_vars

----------------------------------------------------------------------------
(* Properties of a file run *)

hintMissing(hint) == truthy(hint) /\ ~SheetNamesIncludes(workbook, hint)

namesMissingSheet ==
    \/ /\ request.entry = "parseWorkbook"
       /\ \/ hintMissing(request.options.behaviorSheetHint)
          \/ hintMissing(request.options.metricSheetHint)
    \/ /\ request.entry = "parseSingleSheet"
       /\ hintMissing(request.options.sheetName)

\* C11: when behaviorSheetHint, metricSheetHint or sheetName names a sheet
\* that is not in the workbook, the entry point throws and returns no
\* result; it never parses another sheet instead.
C11_MissingSheetHintFails == namesMissingSheet => outcome.threw

\* C14: no sheet of the file handed to an entry point has a first data row
\* for which looksLikeBehaviorSheet and looksLikeMetricSheet are both true.
C14_NeverBothSheetKinds ==
    outcome.done =>
        \A i \in DOMAIN workbook :
            ~(looksLikeBehaviorSheet(workbook[i]) /\ looksLikeMetricSheet(workbook[i]))

\* the sheet parseSingleSheet or parseCsv went through
parsedSheet ==
    IF request.entry = "parseCsv" THEN workbook[1]
    ELSE sheetOf(workbook, outcome.sheetName)

\* the row loops an entry point ran: the rows read, the stats counted and
\* the records returned, per dataset
runsOf ==
    IF ~outcome.done \/ outcome.threw THEN {}
    ELSE IF request.entry = "parseWorkbook"
    THEN { [dataset |-> "behaviors",
            rows |-> sheetOf(workbook, outcome.sheets.behaviors).rows,
            stats |-> outcome.behaviorStats,
            records |-> outcome.behaviors],
           [dataset |-> "metrics",
            rows |-> sheetOf(workbook, outcome.sheets.metrics).rows,
            stats |-> outcome.metricStats,
            records |-> outcome.monthlyMetrics \o outcome.activityMetrics] }
    ELSE IF outcome.detectedType = "unknown" THEN {}
    ELSE { [dataset |-> outcome.detectedType,
            rows |-> parsedSheet.rows,
            stats |-> outcome.stats,
            records |-> outcome.behaviors \o outcome.monthlyMetrics
                            \o outcome.activityMetrics] }

leapYear(y) == (y % 4 = 0 /\ y % 100 # 0) \/ y % 400 = 0
daysInMonth(m, y) ==
    IF m = 2 THEN (IF leapYear(y) THEN 29 ELSE 28)
    ELSE IF m \in {4, 6, 9, 11} THEN 30 ELSE 31
monthNumber(short) == CHOOSE k \in DOMAIN MONTHS : MONTHS[k].short = short

\* today is at least 9 whole days after the last calendar day of the month
nineDaysAfterMonthEnd(period, today) ==
    LET m == monthNumber(period.month)
    IN  daysFromCivil(today.year, today.month, today.day)
            - daysFromCivil(period.year, m, daysInMonth(m, period.year)) >= 9

validPeriod(row) == parseMonthYear(row.month_year).month # null

yieldsRecord(run, i) == \E j \in DOMAIN run.records : run.records[j].id = i + 1

reported(what, dataset) ==
    \E i \in DOMAIN outcome.issues :
        outcome.issues[i].what = what /\ outcome.issues[i].dataset = dataset

\* C16: after parseWorkbook, parseSingleSheet or parseCsv, a dataset whose
\* filteredMissingData or filteredTooRecent counter is above zero has an
\* entry in issues that reports that loss for that dataset.
C16_RowLossReported ==
    \A run \in runsOf :
        \A what \in {"filteredMissingData", "filteredTooRecent"} :
            run.stats[what] > 0 => reported(what, run.dataset)

----------------------------------------------------------------------------
(* A function run: one of the pure functions of the parser is applied to   *)
(* an input drawn at the start; a canonicalizer may then be applied once   *)
(* more to its own result.                                                 *)

\* new Date(t) is invalid when t is more than 8.64e15 ms, ie 100,000,000
\* days, away from 1970-01-01
MaxDateDays == 100000000
\* Date.UTC(1899, 11, 30) in days from 1970-01-01
ExcelEpochDays == -25569

InvalidDate == [valid |-> FALSE, days |-> 0]
dateOfDays(days) ==
    IF days < -MaxDateDays \/ days > MaxDateDays THEN InvalidDate
    ELSE [valid |-> TRUE, days |-> days]

excelSerialToDate(serial) == dateOfDays(ExcelEpochDays + serial)

\* getUTCFullYear() and getUTCMonth() + 1 of the day `days` after 1970-01-01
civilFromDays(days) ==
    LET z == days + 719468
        era == z \div 146097
        doe == z - era * 146097
        yoe == (doe - doe \div 1460 + doe \div 36524 - doe \div 146096) \div 365
        doy == doe - (365 * yoe + yoe \div 4 - yoe \div 100)
        mp == (5 * doy + 2) \div 153
        m == IF mp < 10 THEN mp + 3 ELSE mp - 9
    IN  [year |-> IF m <= 2 THEN yoe + era * 400 + 1 ELSE yoe + era * 400, month |-> m]

returns(value) == [threw |-> FALSE, value |-> value]
throws == [threw |-> TRUE]

\* MONTHS[date.getUTCMonth()].short and date.getUTCFullYear(): the month
\* of an invalid date is NaN, MONTHS[NaN] is undefined and reading .short
\* of it throws
monthYearOfDate(date) ==
    IF ~date.valid THEN throws
    ELSE returns([month |-> MONTHS[civilFromDays(date.days).month].short,
                  year |-> civilFromDays(date.days).year,
                  hasYear |-> TRUE])

\* parseMonthYear for any cell: input is [type, n, text], n the serial of
\* a number or the day of a Date
parseMonthYearOf(input) ==
    IF input.type = "number" THEN monthYearOfDate(excelSerialToDate(input.n))
    ELSE IF input.type = "date" THEN monthYearOfDate(dateOfDays(input.n))
    ELSE IF input.type = "Invalid Date" THEN monthYearOfDate(InvalidDate)
    ELSE IF input.type = "null" THEN returns(parseMonthYear(null))
    ELSE returns(parseMonthYear(input.text))

cell(type, n, text) == [type |-> type, n |-> n, text |-> text]

\* serials: 1 December 2024, the epoch, the day before it, and the first
\* and last serials on either side of the range of Date
Serials ==
    { 45627, 0, -1,
      MaxDateDays - ExcelEpochDays, MaxDateDays - ExcelEpochDays + 1,
      -MaxDateDays - ExcelEpochDays, -MaxDateDays - ExcelEpochDays - 1 }

PeriodTexts ==
    { <<"J", "u", "n", "-", "2", "5">>, <<"J", "u", "n", "e", " ", "2", "0", "2", "5">>, <<"S", "e", "p", "t", " ", "1", "9", "9", "9">>, <<"d", "e", "c", "e", "m", "b", "e", "r", " ", "2", "4">>, <<"1", "5", " ", "J", "u", "n", " ", "2", "0", "2", "5">>,
      <<"J", "u", "n", " ", "1", "5", ",", " ", "2", "0", "2", "5">>, <<" ", "M", "A", "Y", " ", " ", "2", "0", "2", "4", " ">>, <<"2", "0", "2", "5">>, <<"J", "u", "n", "e">>, <<" ", " ">>, <<>>, <<"Q", "2", " ", "2", "5">> }

PeriodInputs ==
    { cell("number", n, <<>>) : n \in Serials }
    \cup { cell("date", 20058, <<>>), cell("Invalid Date", 0, <<>>), cell("null", 0, <<>>) }
    \cup { cell("string", 0, text) : text \in PeriodTexts }

OrgTexts ==
    { <<"U", "n", "i", "t", "e", "d", " ", "H", "e", "a", "l", "t", "h", " ", "G", "r", "o", "u", "p">>, <<"u", "h", "c">>, <<" ", "U", "H", "C", " ">>, <<"o", "p", "t", "u", "m", " ", "u", "h", "c">>, <<"O", "p", "t", "u", "m", " ", "B", "e", "h", "a", "v", "i", "o", "r", "a", "l", " ", "H", "e", "a", "l", "t", "h">>,
      <<"A", "c", "m", "e">>, <<"A", "c", "m", "e", " ", " ", "C", "o", "r", "p">>, <<"u", "n", "i", "t", "e", "d", " ", " ", "h", "e", "a", "l", "t", "h", " ", "c", "a", "r", "e">>, <<"c", "o", "n", "s", "t", "r", "u", "c", "t", "o", "r">>, <<" ", " ">> }

MetricTexts ==
    { <<"n", "p", "s">>, <<"M", "y", " ", "N", "P", "S", " ", "S", "c", "o", "r", "e">>, <<"r", "e", "l", "e", "a", "s", "e">>, <<"R", "e", "l", "e", "a", "s", "e", " ", " ", "R", "a", "t", "e">>, <<"a", "h", "t">>, <<"F", "o", "o", " ", " ", "B", "a", "r">>, <<" ", " ">> }

TextInputs(texts) == { cell("string", 0, text) : text \in texts } \cup { cell("null", 0, <<>>) }

textOf(input) == IF input.type = "null" THEN null ELSE input.text

\* one-row sheets, parsed as behaviors or as metrics, with and without the
\* session's alias tables injected
CallRows ==
    { [month_year |-> sJun25, organization |-> o, program |-> sPerf, metric |-> m] :
        o \in { sUhcOrg, sBlank, <<"A", "c", "m", "e", " ", " ", "C", "o", "r", "p">>, <<"c", "o", "n", "s", "t", "r", "u", "c", "t", "o", "r">> },
        m \in { null, sNpsMetric, sFooMetric, sBlank } }

RowInputs ==
    { [type |-> "row", row |-> row, kind |-> kind, dynamic |-> dynamic] :
        row \in CallRows, kind \in {"behaviors", "metrics"}, dynamic \in BOOLEAN }

rowEnv(dynamic) ==
    [skipDateFilter |-> TRUE, today |-> Today,
     metricResolver |->
        IF dynamic THEN resolverOf(SessionMetricAliases, null) ELSE NoResolver,
     industryResolver |->
        IF dynamic THEN resolverOf(SessionIndustryAliases, null) ELSE NoResolver]

InitCall ==
    /\ rules = <<>> /\ tag = null /\ rawInput = null /\ resolved = null /\ rpc = "build"
    /\ ParserIdle
    /\ PreviewIdle
    /\ FileIdle
    /\ CommitIdle
    /\ AliasIdle
    /\ callee = "none"
    /\ \/ argument \in PeriodInputs
       \/ argument \in TextInputs(OrgTexts)
       \/ argument \in TextInputs(MetricTexts)
       \/ argument \in RowInputs
    /\ returned = [threw |-> FALSE]

Idle == UNCHANGED <<resolverVars, moduleVars, parseVars, previewVars, fileVars, commitVars, aliasVars>>

CallParseMonthYear ==
    /\ callee = "none"
    /\ argument \in PeriodInputs
    /\ callee' = "parseMonthYear"
    /\ returned' = parseMonthYearOf(argument)
    /\ UNCHANGED argument
    /\ Idle

CallToAmplifaiOrg ==
    /\ callee = "none"
    /\ argument \in TextInputs(OrgTexts)
    /\ callee' = "toAmplifaiOrg"
    /\ returned' = returns(toAmplifaiOrg(textOf(argument)))
    /\ UNCHANGED argument
    /\ Idle

CallDeriveIndustryFromOrg ==
    /\ callee = "none"
    /\ argument \in TextInputs(OrgTexts)
    /\ callee' = "deriveIndustryFromOrg"
    /\ returned' = returns(deriveIndustryFromOrg(textOf(argument)))
    /\ UNCHANGED argument
    /\ Idle

CallDeriveAmplifaiMetric ==
    /\ callee = "none"
    /\ argument \in TextInputs(MetricTexts)
    /\ callee' = "deriveAmplifaiMetric"
    /\ returned' = returns(deriveAmplifaiMetric(textOf(argument)))
    /\ UNCHANGED argument
    /\ Idle

\* the canonicalizer applied to the string it has just returned
CallAgain ==
    /\ callee \in {"toAmplifaiOrg", "deriveAmplifaiMetric"}
    /\ argument.type \in {"string", "null"}
    /\ returned.value \notin {null, Inherited}
    /\ argument' = [type |-> "result", n |-> 0, text |-> returned.value]
    /\ returned' = returns(IF callee = "toAmplifaiOrg"
                           THEN toAmplifaiOrg(returned.value)
                           ELSE deriveAmplifaiMetric(returned.value))
    /\ UNCHANGED callee
    /\ Idle

\* parseBehaviorRows or parseMetricRows over a sheet of one row
CallParseRows ==
    /\ callee = "none"
    /\ argument \in RowInputs
    /\ callee' = "parseRows"
    /\ returned' = returns(parseRows(argument.kind, <<argument.row>>,
                                     [stats |-> initStats, parsed |-> <<>>,
                                      tracker |-> NoTracker],
                                     rowEnv(argument.dynamic)))
    /\ UNCHANGED argument
    /\ Idle

NextCall ==
    \/ CallParseMonthYear
    \/ CallToAmplifaiOrg
    \/ CallDeriveIndustryFromOrg
    \/ CallDeriveAmplifaiMetric
    \/ CallAgain
    \/ CallParseRows

SpecCall == InitCall /\ [][NextCall]_vars

----------------------------------------------------------------------------
(* Properties of a function run *)

\* C12: parseMonthYear throws for no input (a finite number of any size
\* or sign, a Date, valid or not, a string, null) and returns month and
\* year both null or both non-null.
C12_ParsePeriodNeverThrows ==
    callee = "parseMonthYear" =>
        /\ ~returned.threw
        /\ (returned.value.month = null) <=> ~returned.value.hasYear

\* the months whose three-letter stem the text holds
monthsNamed(text) ==
    { k \in DOMAIN MONTHS : includes(toLowerCase(text), MONTHS[k].stem) }

\* the digit tokens of a text: the maximal runs of digits, as <<first, last>>
digitRuns(text) ==
    { run \in (DOMAIN text) \X (DOMAIN text) :
        /\ run[1] <= run[2]
        /\ \A i \in run[1]..run[2] : isDigit(text[i])
        /\ run[1] = 1 \/ ~isDigit(text[run[1] - 1])
        /\ run[2] = Len(text) \/ ~isDigit(text[run[2] + 1]) }

RECURSIVE numberOf(_)
numberOf(digits) ==
    IF digits = <<>> THEN 0
    ELSE 10 * numberOf(SubSeq(digits, 1, Len(digits) - 1)) + digitValue(digits[Len(digits)])

tokenValue(text, run) == numberOf(SubSeq(text, run[1], run[2]))

\* the 4-digit years 19xx and 20xx, and the 2-digit numbers, of a text
fourDigitYears(text) ==
    { tokenValue(text, run) : run \in { r \in digitRuns(text) : r[2] - r[1] = 3 } }
        \cap (1900..2099)
twoDigitNumbers(text) ==
    { tokenValue(text, run) : run \in { r \in digitRuns(text) : r[2] - r[1] = 1 } }

\* C13: for a string with an English month name or abbreviation and a year
\* token, parseMonthYear returns the month's 3-letter code and the year: a
\* 4-digit year 19xx or 20xx as it is, also when the string holds a
\* 2-digit number such as a day as well, and otherwise a 2-digit year yy
\* as 2000 + yy.
C13_MonthNameAndYearToken ==
    ( /\ callee = "parseMonthYear"
      /\ argument.type = "string"
      /\ monthsNamed(argument.text) # {}
      /\ fourDigitYears(argument.text) \cup twoDigitNumbers(argument.text) # {} )
    => /\ ~returned.threw
       /\ \E k \in monthsNamed(argument.text) : returned.value.month = MONTHS[k].short
       /\ returned.value.hasYear
       /\ IF fourDigitYears(argument.text) # {}
          THEN returned.value.year \in fourDigitYears(argument.text)
          ELSE returned.value.year \in { 2000 + yy : yy \in twoDigitNumbers(argument.text) }

staticTable == IF callee = "toAmplifaiOrg" THEN ORG_ALIASES ELSE INDUSTRY_MAPPINGS
lowerTrimmed == toLowerCase(trim(argument.text))
exactKeys == { i \in DOMAIN staticTable : staticTable[i][1] = lowerTrimmed }
heldKeys == { i \in DOMAIN staticTable : includes(lowerTrimmed, staticTable[i][1]) }

\* C17: toAmplifaiOrg and deriveIndustryFromOrg return the value under
\* the key equal to the lower-cased trimmed input when there is one, and
\* otherwise the value of the first entry in declaration order whose key
\* the input holds; an exact key is never overridden by a held key.
C17_ExactKeyThenFirstHeldKey ==
    ( /\ callee \in {"toAmplifaiOrg", "deriveIndustryFromOrg"}
      /\ argument.type = "string" )
    => /\ \A i \in exactKeys : returned.value = staticTable[i][2]
       /\ (exactKeys = {} /\ heldKeys # {})
            => \E i \in heldKeys :
                  /\ \A j \in heldKeys : i <= j
                  /\ returned.value = staticTable[i][2]

\* "optum uhc" holds the keys "uhc" and "optum", of different values,
\* and is no key itself
C17_Witness ==
    /\ callee = "toAmplifaiOrg"
    /\ argument.type = "string"
    /\ exactKeys = {}
    /\ \E i, j \in heldKeys : staticTable[i][2] # staticTable[j][2]
    /\ returned.value = sUHC

dynamicIndustry(org, dynamic) ==
    dynamic /\ truthy(callResolver(rowEnv(TRUE).industryResolver, org))

staticKeyMatches(table, text) ==
    \E i \in DOMAIN table : includes(toLowerCase(trim(text)), table[i][1])

\* C18: every accepted record has a non-null, non-empty canonical
\* organization and, when its metric is present, a non-null canonical
\* metric; with no alias matching, the canonical organization is the
\* upper-cased, whitespace-collapsed input; the canonical industry is
\* null exactly when neither a dynamic rule nor a static key matches.
C18_AcceptedRecordsAreCanonical ==
    callee = "parseRows" =>
        \A i \in DOMAIN returned.value.parsed :
            LET rec == returned.value.parsed[i]
                org == argument.row.organization
            IN  /\ truthy(rec.amplifaiOrg)
                /\ recordMetric(rec, argument.kind) # null => rec.amplifaiMetric # null
                /\ ~staticKeyMatches(ORG_ALIASES, org)
                      => rec.amplifaiOrg = collapseSpaces(toUpperCase(trim(org)))
                /\ (rec.amplifaiIndustry = null)
                      <=> ( /\ ~dynamicIndustry(org, argument.dynamic)
                            /\ ~staticKeyMatches(INDUSTRY_MAPPINGS, org) )

\* C19: static canonicalization is idempotent: toAmplifaiOrg and
\* deriveAmplifaiMetric applied to a non-null value they returned give
\* that value back.
C19_CanonicalizationIdempotent ==
    [][ ( /\ callee \in {"toAmplifaiOrg", "deriveAmplifaiMetric"}
          /\ argument'.type = "result" )
        => returned'.value = returned.value ]_vars

----------------------------------------------------------------------------
(* Order among rules of one scope tier *)

sameTier(a, b, client) ==
    \/ client # null /\ a.client = client /\ b.client = client
    \/ a.client = null /\ b.client = null

\* C20: of two eligible rules of the same scope tier that match the input,
\* the one with the lower priority, or with the same priority and the later
\* place in the rule list, is not the one whose canonical value is returned
\* (the value names the rule where no other rule carries it).
C20_PriorityThenListOrder ==
    Called =>
        \A a, b \in DOMAIN rules :
            ( /\ sameTier(rules[a], rules[b], tag)
              /\ \A c \in DOMAIN rules \ {b} : rules[c].canonical # rules[b].canonical
              /\ eligibleMatch(rules[a], tag, rawInput)
              /\ eligibleMatch(rules[b], tag, rawInput)
              /\ \/ rules[a].priority > rules[b].priority
                 \/ rules[a].priority = rules[b].priority /\ a < b )
            => resolved # rules[b].canonical

\* two global rules match, the second has the higher priority and wins
C20_Witness ==
    /\ Called /\ Len(rules) = 2
    /\ rules[1].client = null /\ rules[2].client = null
    /\ rules[2].priority > rules[1].priority
    /\ eligibleMatch(rules[1], tag, rawInput)
    /\ eligibleMatch(rules[2], tag, rawInput)
    /\ resolved = rules[2].canonical

----------------------------------------------------------------------------
(* lib/upload/previewCache.ts, store/previewStore.ts, lib/upload/selection *)
(* and app/api/upload/commit/route.ts: a preview is cached and shown, rows *)
(* are selected in the upload page, and commit requests upsert the         *)
(* selected rows.  A request runs from one await to the next in one step.  *)

\* getPreview(previewId) after its purgeExpired()
getPreview(entries, previewId) ==
    IF \E e \in purgeExpired(entries) : e.id = previewId
    THEN [found |-> TRUE,
          entry |-> CHOOSE e \in purgeExpired(entries) : e.id = previewId]
    ELSE [found |-> FALSE]

deletePreview(entries, previewId) == { e \in entries : e.id # previewId }

\* an include array: absent from the body, or the ids it lists
NotIncluded == [given |-> FALSE, ids |-> {}]
Included(ids) == [given |-> TRUE, ids |-> ids]

\* a selectRowsById that takes an empty list as it stands
selectRowsByIdStrict(rows, allowedIds) ==
    IF ~allowedIds.given THEN rows
    ELSE SelectSeq(rows, LAMBDA row : row.id \in allowedIds.ids)

selectRowsById(rows, allowedIds) ==
    IF ~allowedIds.given \/ Cardinality(allowedIds.ids) = 0 THEN rows
    ELSE SelectSeq(rows, LAMBDA row : row.id \in allowedIds.ids)

\* toBehaviorInsert, toMonthlyMetricInsert, toActivityMetricInsert: the
\* columns of the row, without its id
toInsert(row) == [organization |-> row.organization]
mapToInsert(rows) == [i \in DOMAIN rows |-> toInsert(rows[i])]

datasetOf(t) ==
    CASE t = "behavioral_coaching" -> "behaviors"
      [] t = "monthly_metrics" -> "monthlyMetrics"
      [] t = "activity_metrics" -> "activityMetrics"

\* runInsert from table number i on: the first table it upserts into, or
\* "return" when no insert list from there on has a row
RECURSIVE upsertFrom(_, _)
upsertFrom(inserts, i) ==
    IF i > Len(TableNames) THEN "return"
    ELSE IF Len(inserts[datasetOf(TableNames[i])]) > 0 THEN TableNames[i]
    ELSE upsertFrom(inserts, i + 1)

tableNumber(t) == CHOOSE i \in DOMAIN TableNames : TableNames[i] = t

\* createSelection(preview)
createSelection(data) ==
    [d \in DatasetKeys |-> { data[d][i].id : i \in DOMAIN data[d] }]

totalSelected(selection) ==
    Cardinality(selection["behaviors"]) + Cardinality(selection["monthlyMetrics"])
        + Cardinality(selection["activityMetrics"])

previewRow(id, organization) == [id |-> id, organization |-> organization]

PreviewId == "p1"
Checksum == "c1"
StaleChecksum == "c0"

\* the datasets of the previews cached
Payloads ==
    { [behaviors |-> <<previewRow("b1", "o1"), previewRow("b2", "o2")>>,
       monthlyMetrics |-> <<previewRow("m1", "o1")>>,
       activityMetrics |-> <<>>],
      [behaviors |-> <<previewRow("b1", "o1")>>,
       monthlyMetrics |-> <<previewRow("m1", "o1")>>,
       activityMetrics |-> <<previewRow("a1", "o1")>>] }

\* the include objects of requests that do not come from the upload page
ApiIncludes ==
    { [d \in DatasetKeys |-> NotIncluded],
      [d \in DatasetKeys |-> IF d = "behaviors" THEN Included({"b1"}) ELSE NotIncluded] }

InitCommit ==
    /\ rules = <<>> /\ tag = null /\ rawInput = null /\ resolved = null /\ rpc = "build"
    /\ ParserIdle
    /\ PreviewIdle
    /\ FileIdle
    /\ CallIdle
    /\ CommitIdle
    /\ AliasIdle

NotCommit ==
    UNCHANGED <<resolverVars, moduleVars, parseVars, previewVars, fileVars, callVars,
                aliasVars>>

\* the preview route's savePreview(...) and the page's setPreview(response)
SavePreview(payload) ==
    /\ store.status = "idle"
    /\ cache' = purgeExpired(cache) \cup
                  {[id |-> PreviewId, checksum |-> Checksum, expired |-> FALSE,
                    payload |-> payload]}
    /\ store' = [preview |-> [present |-> TRUE, previewId |-> PreviewId,
                             checksum |-> Checksum, data |-> payload],
                 selection |-> createSelection(payload),
                 status |-> "ready"]
    /\ UNCHANGED <<commits, tables>>
    /\ NotCommit

\* PREVIEW_TTL_SECONDS pass
Expire ==
    /\ \E e \in cache : ~e.expired
    /\ cache' = { [e EXCEPT !.expired = TRUE] : e \in cache }
    /\ UNCHANGED <<store, commits, tables>>
    /\ NotCommit

toggleRow(dataset, rowId) ==
    /\ store.preview.present
    /\ \E i \in DOMAIN store.preview.data[dataset] :
          store.preview.data[dataset][i].id = rowId
    /\ store' = [store EXCEPT !.selection[dataset] =
                    IF rowId \in @ THEN @ \ {rowId} ELSE @ \cup {rowId}]
    /\ UNCHANGED <<cache, commits, tables>>
    /\ NotCommit

setDatasetSelection(dataset, nextState) ==
    /\ store.preview.present
    /\ store' = [store EXCEPT !.selection[dataset] =
                    IF nextState = "all"
                    THEN createSelection(store.preview.data)[dataset]
                    ELSE {}]
    /\ UNCHANGED <<cache, commits, tables>>
    /\ NotCommit

\* the commit button is enabled; handleCommit up to await fetch(...)
handleCommit(r) ==
    /\ commits[r].pc = "idle"
    /\ store.preview.present
    /\ totalSelected(store.selection) > 0
    /\ store.status \in {"ready", "error"}
    /\ store' = [store EXCEPT !.status = "committing"]
    /\ commits' = [commits EXCEPT ![r] =
                      [pc |-> "sent", origin |-> "store",
                       previewId |-> store.preview.previewId,
                       checksum |-> store.preview.checksum,
                       include |-> [d \in DatasetKeys |-> Included(store.selection[d])]]]
    /\ UNCHANGED <<cache, tables>>
    /\ NotCommit

\* a commit request of another client of the API
ApiCommit(r, checksum, include) ==
    /\ commits[r].pc = "idle"
    /\ cache # {}
    /\ commits' = [commits EXCEPT ![r] =
                      [pc |-> "sent", origin |-> "api", previewId |-> PreviewId,
                       checksum |-> checksum, include |-> include]]
    /\ UNCHANGED <<cache, store, tables>>
    /\ NotCommit

answered(req, status) == [req EXCEPT !.pc = "answered", !.status = status]

\* POST from the body to the first await of runInsert
PostCommit(r) ==
    /\ commits[r].pc = "sent"
    /\ cache' = purgeExpired(cache)
    /\ LET req == commits[r]
           cacheEntry == getPreview(cache, req.previewId)
           inserts == [d \in DatasetKeys |->
                          mapToInsert(selectRowsById(cacheEntry.entry.payload[d],
                                                     req.include[d]))]
           none == [d \in DatasetKeys |-> <<>>]
           locals == [pc |-> "sent", origin |-> req.origin, previewId |-> req.previewId,
                      checksum |-> req.checksum, include |-> req.include,
                      payload |-> none, inserts |-> none, written |-> none, status |-> 0]
       IN  commits' = [commits EXCEPT ![r] =
              IF ~cacheEntry.found THEN answered(locals, 404)
              ELSE IF cacheEntry.entry.checksum # req.checksum THEN answered(locals, 409)
              ELSE IF Len(inserts["behaviors"]) + Len(inserts["monthlyMetrics"])
                        + Len(inserts["activityMetrics"]) = 0
                   THEN answered(locals, 400)
              ELSE [locals EXCEPT !.pc = upsertFrom(inserts, 1),
                                  !.payload = cacheEntry.entry.payload,
                                  !.inserts = inserts]]
    /\ UNCHANGED <<store, tables>>
    /\ NotCommit

\* an upsert resolves; runInsert goes on to its next await, or returns and
\* the preview is deleted, or throws and the request answers 502
UpsertSettled(r, failed) ==
    /\ commits[r].pc \in {TableNames[i] : i \in DOMAIN TableNames}
    /\ LET t == commits[r].pc
           d == datasetOf(t)
           req == commits[r]
           next == upsertFrom(req.inserts, tableNumber(t) + 1)
       IN  IF failed
           THEN /\ commits' = [commits EXCEPT ![r] = answered(req, 502)]
                /\ UNCHANGED <<cache, tables>>
           ELSE /\ tables' = [tables EXCEPT ![t] =
                                 @ \cup {req.inserts[d][i] : i \in DOMAIN req.inserts[d]}]
                /\ commits' = [commits EXCEPT ![r] =
                      IF next = "return"
                      THEN answered([req EXCEPT !.written[d] = req.inserts[d]], 200)
                      ELSE [req EXCEPT !.written[d] = req.inserts[d], !.pc = next]]
                /\ cache' = IF next = "return"
                            THEN deletePreview(cache, req.previewId) ELSE cache
    /\ UNCHANGED store
    /\ NotCommit

\* handleCommit after await fetch(...): finishCommit(data) or setError(...)
CommitAnswered(r) ==
    /\ commits[r].pc = "answered"
    /\ commits[r].origin = "store"
    /\ commits' = [commits EXCEPT ![r].pc = "closed"]
    /\ store' = IF commits[r].status = 200
                THEN [preview |-> [present |-> FALSE],
                      selection |-> [d \in DatasetKeys |-> {}],
                      status |-> "success"]
                ELSE [store EXCEPT !.status = "error"]
    /\ UNCHANGED <<cache, tables>>
    /\ NotCommit

NextCommit ==
    \/ \E payload \in Payloads : SavePreview(payload)
    \/ Expire
    \/ \E dataset \in DatasetKeys, rowId \in {"b1", "b2", "m1", "a1"} :
          toggleRow(dataset, rowId)
    \/ \E dataset \in DatasetKeys, nextState \in {"all", "none"} :
          setDatasetSelection(dataset, nextState)
    \/ \E r \in CommitRequests : handleCommit(r)
    \/ \E r \in CommitRequests, checksum \in {Checksum, StaleChecksum},
          include \in ApiIncludes : ApiCommit(r, checksum, include)
    \/ \E r \in CommitRequests : PostCommit(r)
    \/ \E r \in CommitRequests, failed \in BOOLEAN : UpsertSettled(r, failed)
    \/ \E r \in CommitRequests : CommitAnswered(r)

SpecCommit == InitCommit /\ [][NextCommit]_vars

----------------------------------------------------------------------------
(* Claims about the commit *)

succeeded(r) == commits[r].pc \in {"answered", "closed"} /\ commits[r].status = 200

\* C22: for a preview id at most one commit request ever completes
\* successfully and writes rows.
C22_AtMostOneCommitSucceeds ==
    \A r1, r2 \in CommitRequests :
        (succeeded(r1) /\ succeeded(r2)) => r1 = r2

\* the rows of dataset d that request r was sent to insert: those whose ids
\* its include array lists
rowsIncluded(r, d) ==
    mapToInsert(selectRowsByIdStrict(commits[r].payload[d], commits[r].include[d]))

posted(r) == commits[r].pc \notin {"idle", "sent"}

\* C27: a commit issued from the preview store never writes a row the user
\* has deselected, and a successful one has upserted for each dataset
\* exactly the rows whose ids are in the selection, also when a dataset's
\* include array is empty.
C27_OnlySelectedRowsWritten ==
    \A r \in CommitRequests :
        (posted(r) /\ commits[r].origin = "store") =>
            \A d \in DatasetKeys :
                /\ \A i \in DOMAIN commits[r].written[d] :
                      \E j \in DOMAIN rowsIncluded(r, d) :
                          rowsIncluded(r, d)[j] = commits[r].written[d][i]
                /\ succeeded(r) => commits[r].written[d] = rowsIncluded(r, d)

errorResponse(r) ==
    commits[r].pc \in {"answered", "closed"} /\ commits[r].status # 200

\* C29: when a commit request ends in an error response, that request has
\* written no row to any of the three tables.
C29_ErrorLeavesNothingWritten ==
    \A r \in CommitRequests :
        errorResponse(r) => \A d \in DatasetKeys : commits[r].written[d] = <<>>

----------------------------------------------------------------------------
(* Tracker run: initNormalizationTracking, the behaviour transformer and   *)
(* getNormalizationSummary called in any order.  parsed holds the records  *)
(* pushed since the tracker was last initialized, ppc is "parsing" from an *)
(* initialization to the next read of the summary.                         *)

sUhcMixed == <<"U", "h", "c">>
sUhgOrg == <<"u", "h", "g">>

TrackerRows ==
    { [month_year |-> sJun25, organization |-> o, program |-> sPerf, metric |-> m] :
        o \in {sUhcOrg, sUhcMixed, sUhgOrg}, m \in {sNpsMetric, sFooMetric} }
    \cup { [month_year |-> sJun25, organization |-> null, program |-> sPerf,
            metric |-> sNpsMetric] }

\* an initialization that keeps a tracker that is there
initNormalizationTrackingOnce(tracker) ==
    IF tracker.active THEN tracker ELSE EmptyTracker

initNormalizationTracking(tracker) == EmptyTracker

InitTracker ==
    /\ rules = <<>> /\ tag = null /\ rawInput = null /\ resolved = null /\ rpc = "build"
    /\ ParserIdle
    /\ PreviewIdle
    /\ FileIdle
    /\ CallIdle
    /\ CommitIdle
    /\ AliasIdle

NotTracker ==
    UNCHANGED <<resolverVars, previewVars, fileVars, callVars, commitVars, aliasVars>>

InitNormalizationTracking ==
    /\ normalizationTracker' = initNormalizationTracking(normalizationTracker)
    /\ parsed' = <<>>
    /\ stats' = initStats
    /\ ppc' = "parsing"
    /\ UNCHANGED <<dbMetricResolver, dbIndustryResolver, options, lastRow, result>>
    /\ NotTracker

\* one turn of rows.forEach in parseBehaviorRows, with or without a tracker
TrackBehaviorRow(row) ==
    /\ stats.totalRows < MaxRows
    /\ LET st == [stats |-> stats, parsed |-> parsed, tracker |-> normalizationTracker]
       IN  \E next \in { parseBehaviorRow(st, row, stats.totalRows, rowEnv(FALSE)) } :
              /\ stats' = next.stats
              /\ parsed' = next.parsed
              /\ normalizationTracker' = next.tracker
    /\ lastRow' = row
    /\ UNCHANGED <<dbMetricResolver, dbIndustryResolver, options, result, ppc>>
    /\ NotTracker

GetNormalizationSummary ==
    /\ result' = [result EXCEPT !.normalizations = summaryOf(normalizationTracker)]
    /\ normalizationTracker' = NoTracker
    /\ ppc' = "done"
    /\ UNCHANGED <<dbMetricResolver, dbIndustryResolver, options, stats, parsed, lastRow>>
    /\ NotTracker

NextTracker ==
    \/ InitNormalizationTracking
    \/ \E row \in TrackerRows : TrackBehaviorRow(row)
    \/ GetNormalizationSummary

SpecTracker == InitTracker /\ [][NextTracker]_vars

----------------------------------------------------------------------------
(* Claims about the tracker *)

\* C24: getNormalizationSummary returns the events of the rows recorded
\* since the last initNormalizationTracking and leaves no tracker, so that
\* a read with no initialization since the last read returns five empty
\* lists; rows recorded while no tracker is initialized have no effect, and
\* an initialization discards what was recorded before it.
C24_ReadAndClear ==
    [][GetNormalizationSummary =>
          /\ normalizationTracker' = NoTracker
          /\ result'.normalizations =
                IF ppc = "parsing"
                THEN summaryOf(ownEvents("behaviors", parsed, EmptyTracker))
                ELSE EmptySummary]_vars

\* a read with no tracker, after rows whose events a summary would list
C24_Witness ==
    /\ ppc = "done"
    /\ parsed # <<>>
    /\ summaryOf(ownEvents("behaviors", parsed, EmptyTracker)) # EmptySummary
    /\ result.normalizations = EmptySummary
    /\ normalizationTracker = NoTracker

sameIgnoringCase(a, b) == toLowerCase(a) = toLowerCase(b)

\* the original string a record carries for a tracker map
originalOf(type, record) ==
    IF type = "metrics" THEN record.metric ELSE record.organization

\* the records of the session that carry the original, whatever its case
carrying(type, original) ==
    { k \in DOMAIN parsed :
        /\ originalOf(type, parsed[k]) # null
        /\ sameIgnoringCase(originalOf(type, parsed[k]), original) }

\* C30: within a session the tracker keeps one counter per original string:
\* originals that differ only in letter case share one entry, keyed by the
\* casing seen first, whose count is the number of accepted rows carrying
\* that original.
C30_OneCounterPerOriginal ==
    normalizationTracker.active =>
        \A type \in {"organizations", "metrics", "industries"} :
            LET map == normalizationTracker[type]
            IN  /\ \A i, j \in DOMAIN map :
                      sameIgnoringCase(map[i].key, map[j].key) => i = j
                /\ \A i \in DOMAIN map :
                      /\ map[i].count = Cardinality(carrying(type, map[i].key))
                      /\ \E k \in carrying(type, map[i].key) :
                            /\ originalOf(type, parsed[k]) = map[i].key
                            /\ \A l \in carrying(type, map[i].key) : k <= l

----------------------------------------------------------------------------
(* lib/mappings/metricResolver.ts, loadMetricAliases and                  *)
(* clearMetricAliasCache, and app/api/metric-aliases/route.ts, POST: the  *)
(* alias table is read through a cache while an alias is created.  A call *)
(* runs from one await to the next in one step; the table answers a query *)
(* with its rows at the time the query runs.                              *)

Aliases(rows) == [loaded |-> TRUE, rows |-> rows]

\* aliasCache && now - cacheTimestamp < CACHE_TTL_MS
cacheIsFresh(cached, timestamp, now) ==
    cached.loaded /\ (now - timestamp) * TickMs < CACHE_TTL_MS

\* aliasCache ?? []
cachedOrEmpty(cached) == IF cached.loaded THEN cached.rows ELSE {}

InitAlias ==
    /\ rules = <<>> /\ tag = null /\ rawInput = null /\ resolved = null /\ rpc = "build"
    /\ ParserIdle
    /\ PreviewIdle
    /\ FileIdle
    /\ CallIdle
    /\ CommitIdle
    /\ AliasIdle

NotAlias ==
    UNCHANGED <<resolverVars, moduleVars, parseVars, previewVars, fileVars, callVars,
                commitVars>>

Tick ==
    /\ clock < CACHE_TTL_MS \div TickMs + 1 + MaxTicks
    /\ clock' = clock + 1
    /\ UNCHANGED <<aliasCache, cacheTimestamp, metricAliases, loaders, creator>>
    /\ NotAlias

\* loadMetricAliases() up to the return of the cached rows or to the await
\* of the query
LoadMetricAliases(l) ==
    /\ loaders[l].pc = "idle"
    /\ loaders' = [loaders EXCEPT ![l] =
          IF cacheIsFresh(aliasCache, cacheTimestamp, clock)
          THEN [pc |-> "returned", now |-> clock, afterCreate |-> creator.pc = "answered",
                error |-> FALSE, value |-> aliasCache.rows]
          ELSE [pc |-> "query", now |-> clock, afterCreate |-> creator.pc = "answered"]]
    /\ UNCHANGED <<aliasCache, cacheTimestamp, metricAliases, clock, creator>>
    /\ NotAlias

\* the table runs the select of a call: its rows, or an error
QueryRuns(l, failed) ==
    /\ loaders[l].pc = "query"
    /\ loaders' = [loaders EXCEPT ![l] =
          [pc |-> "fetched", now |-> @.now, afterCreate |-> @.afterCreate,
           error |-> failed, data |-> IF failed THEN {} ELSE metricAliases]]
    /\ UNCHANGED <<aliasCache, cacheTimestamp, metricAliases, clock, creator>>
    /\ NotAlias

\* loadMetricAliases() after the await
LoadReturns(l) ==
    /\ loaders[l].pc = "fetched"
    /\ IF loaders[l].error
       THEN /\ loaders' = [loaders EXCEPT ![l] =
                  [pc |-> "returned", now |-> @.now, afterCreate |-> @.afterCreate,
                   error |-> TRUE, value |-> cachedOrEmpty(aliasCache)]]
            /\ UNCHANGED <<aliasCache, cacheTimestamp>>
       ELSE /\ aliasCache' = Aliases(loaders[l].data)
            /\ cacheTimestamp' = loaders[l].now
            /\ loaders' = [loaders EXCEPT ![l] =
                  [pc |-> "returned", now |-> @.now, afterCreate |-> @.afterCreate,
                   error |-> FALSE, value |-> loaders[l].data]]
    /\ UNCHANGED <<metricAliases, clock, creator>>
    /\ NotAlias

\* POST /api/metric-aliases: the table runs the insert, or returns an error
InsertRuns(failed) ==
    /\ creator.pc = "idle"
    /\ creator' = [pc |-> "inserted", error |-> failed]
    /\ metricAliases' = IF failed THEN metricAliases ELSE metricAliases \cup {"new"}
    /\ UNCHANGED <<aliasCache, cacheTimestamp, clock, loaders>>
    /\ NotAlias

\* POST after the await: 500, or clearMetricAliasCache() and the answer
CreateReturns ==
    /\ creator.pc = "inserted"
    /\ IF creator.error
       THEN /\ creator' = [pc |-> "failed"]
            /\ UNCHANGED <<aliasCache, cacheTimestamp>>
       ELSE /\ creator' = [pc |-> "answered"]
            /\ aliasCache' = NoAliases
            /\ cacheTimestamp' = 0
    /\ UNCHANGED <<metricAliases, clock, loaders>>
    /\ NotAlias

NextAlias ==
    \/ Tick
    \/ \E l \in Loaders : LoadMetricAliases(l)
    \/ \E l \in Loaders, failed \in BOOLEAN : QueryRuns(l, failed)
    \/ \E l \in Loaders : LoadReturns(l)
    \/ \E failed \in BOOLEAN : InsertRuns(failed)
    \/ CreateReturns

SpecAlias == InitAlias /\ [][NextAlias]_vars

----------------------------------------------------------------------------
(* Claims about the alias cache *)

\* C28: once POST /api/metric-aliases has inserted an alias and cleared the
\* cache, every loadMetricAliases call that starts afterwards returns a rule
\* set that holds the new alias, also when another call was in flight when
\* the cache was cleared (calls whose own query failed are left aside).
C28_LoadAfterCreateSeesAlias ==
    \A l \in Loaders :
        (loaders[l].pc = "returned" /\ loaders[l].afterCreate /\ ~loaders[l].error)
            => "new" \in loaders[l].value

====
